---------------------------- MODULE Spec2Model ----------------------------
(***************************************************************************)
(* A model of dupedog's deduplication engine: the progressive range        *)
(* schedule of the verifier (nextJob), the screener's grouping, the        *)
(* verifier's job processing, and the deduper's per-target replacement     *)
(* protocol over a small POSIX-like filesystem.                            *)
(***************************************************************************)
EXTENDS Integers, Sequences, FiniteSets, Bags, TLC

(***************************************************************************)
(* Program constants (verifier).                                           *)
(***************************************************************************)
probeSize == 1048576

chunkSize == 1073741824

(***************************************************************************)
(* Bounds of the model.                                                    *)
(***************************************************************************)
\* File sizes of the schedule specification are taken within SizeSlack
\* bytes of every boundary of the schedule table.
SizeSlack == 3

\* The clock reading during the run, in seconds.
Now == 1000

\* Injected failures (an I/O error while hashing, EMLINK on link, a failing
\* rename) per run.
MaxFaults == 1

\* Writes of another process to scanned files per run.
MaxWrites == 1

\* Capacity of runDedupe's error channel, scaled down.
ErrCap == 1

\* The largest --workers value tried.
MaxWorkers == 2

(***************************************************************************)
(* Program constants (deduper), in seconds.                                *)
(***************************************************************************)
orphanedTmpMaxAge == 60

\* The builtins min and max of Go.
min(a, b) == IF a < b THEN a ELSE b

max(a, b) == IF a > b THEN a ELSE b

\* The nil job (prev == nil in nextJob).
NoJob == [siblings |-> <<>>, start |-> -1, size |-> -1, totalBytes |-> -1]

VARIABLES
    jobGroup,     \* SpecJob: the candidate group whose schedule is generated
    jobPrev,      \* SpecJob: the last job returned by nextJob (NoJob before)
    jobRanges,    \* SpecJob: the ranges <<start, size>> emitted so far
    jobDone,      \* SpecJob: nextJob has reported done
    selGroup,     \* SpecSelect: the DuplicateGroup given to selectSource
    selPriority,  \* SpecSelect: the pathPriority given to selectSource
    selSource,    \* SpecSelect: what selectSource returned (NoFile before)
    fs,           \* filesystem: path -> directory entry
    inodes,       \* filesystem: <<dev, ino>> -> [size, content, mtime]
    cfg,          \* options of the run (dedupeOptions and the root paths)
    stage,        \* position of runDedupe: scan, screen, verify, dedupe, done
    files,        \* output of Scanner.Run
    candidates,   \* output of Screener.Run
    vFailed,      \* Verifier: representatives whose hashRange returned an error
    vHashed,      \* Verifier: bag of the hashRange calls <<path, start, size>>
    duplicates,   \* what Verifier.Run returned; Deduper.groups
    dpc,          \* Deduper: position inside Run / dedupeFile
    dpos,         \* Deduper: loop indices of Run [gi, si, ti]
    handle,       \* Deduper: the open target handle f of dedupeFile
    dret,         \* Deduper: the DedupeResult about to be returned
    dres,         \* Deduper: the results returned so far, in order
    st,           \* Deduper: stats
    errs,         \* errors sent on the error channel, in order
    ops,          \* filesystem mutations the engine has issued
    extLock,      \* inode another process holds LOCK_EX on (NoId if none)
    written,      \* inodes another process wrote after the scan
    faults,       \* number of injected syscall failures so far
    fs0,          \* the filesystem names when the run started
    inodes0,      \* the inodes when the run started
    prevRun,      \* SpecTwice: what the first of two runs left (NoRun in it)
    cache,        \* SpecCache: the Cache object and the two database files
    clog,         \* SpecCache: what the sessions stored, hit and last looked up
    tree,         \* Scanner tasks: the directory tree, path -> node
    sc,           \* Scanner tasks: options, main task, channels, collector
    walkers,      \* Scanner tasks: the walkers, in the order they were spawned
    vr,           \* Verifier tasks: channels, counters, the main task
    vworkers      \* Verifier tasks: the workers and their inner tasks

auxVars == <<cache, clog, tree, sc, walkers, vr, vworkers>>

jobVars == <<jobGroup, jobPrev, jobRanges, jobDone, selGroup, selPriority, selSource,
             auxVars>>

fsVars == <<fs, inodes>>

pipeVars == <<cfg, stage, files, candidates, vFailed, vHashed, duplicates>>

dedVars == <<dpc, dpos, handle, dret, dres, st, errs, ops>>

envVars == <<extLock, written, faults, fs0, inodes0, prevRun>>

vars == <<jobGroup, jobPrev, jobRanges, jobDone, selGroup, selPriority,
          selSource, fs, inodes, cfg, stage, files,
          candidates, vFailed, vHashed, duplicates, dpc, dpos, handle, dret, dres,
          st, errs, ops, extLock, written, faults, fs0, inodes0, prevRun,
          cache, clog, tree, sc, walkers, vr, vworkers>>

(***************************************************************************)
(* nextJob: the range schedule.  A candidate group is a sequence of        *)
(* sibling groups, a sibling group a sequence of FileInfo records.         *)
(***************************************************************************)
\* The start of the range after HEAD, computed without the clamp to probeSize.
AfterHeadStartNoMax(remaining) == remaining

\* start := max(probeSize, remaining)
AfterHeadStart(remaining) == max(probeSize, remaining)

\* nextJob with the rest of a large file taken as one chunk, whatever its
\* length.
nextJobOneChunk(prev, candidateGroup) ==
    LET fileSize == candidateGroup[1][1].Size IN
    IF prev = NoJob
    THEN [done |-> FALSE,
          next |-> [siblings |-> candidateGroup, start |-> 0,
                    size |-> min(probeSize, fileSize),
                    totalBytes |-> min(probeSize, fileSize)]]
    ELSE IF prev.totalBytes = fileSize
    THEN [done |-> TRUE, next |-> NoJob]
    ELSE IF prev.totalBytes = probeSize
    THEN [done |-> FALSE,
          next |-> [siblings |-> candidateGroup,
                    start |-> AfterHeadStart(fileSize - probeSize),
                    size |-> min(probeSize, fileSize - probeSize),
                    totalBytes |-> probeSize + min(probeSize, fileSize - probeSize)]]
    ELSE [done |-> FALSE,
          next |-> [siblings |-> candidateGroup, start |-> prev.totalBytes - probeSize,
                    size |-> fileSize - prev.totalBytes, totalBytes |-> fileSize]]

nextJob(prev, candidateGroup) ==
    LET fileSize == candidateGroup[1][1].Size IN
    IF prev = NoJob
    THEN LET size == min(probeSize, fileSize)
         IN  [done |-> FALSE,
              next |-> [siblings |-> candidateGroup, start |-> 0, size |-> size,
                        totalBytes |-> size]]
    ELSE IF prev.totalBytes = fileSize
    THEN [done |-> TRUE, next |-> NoJob]
    ELSE IF prev.totalBytes = probeSize
    THEN LET remaining == fileSize - probeSize
             size      == min(probeSize, remaining)
             start     == AfterHeadStart(remaining)
         IN  [done |-> FALSE,
              next |-> [siblings |-> candidateGroup, start |-> start, size |-> size,
                        totalBytes |-> probeSize + size]]
    ELSE LET start == prev.totalBytes - probeSize
             size  == min(chunkSize, fileSize - prev.totalBytes)
         IN  [done |-> FALSE,
              next |-> [siblings |-> candidateGroup, start |-> start, size |-> size,
                        totalBytes |-> prev.totalBytes + size]]

\* The ranges <<start, size>> nextJob yields for a group, from prev on.
RECURSIVE ScheduleFrom(_, _)
ScheduleFrom(prev, candidateGroup) ==
    LET r == nextJob(prev, candidateGroup) IN
    IF r.done THEN <<>>
    ELSE <<<<r.next.start, r.next.size>>>> \o ScheduleFrom(r.next, candidateGroup)

(***************************************************************************)
(* Paths.  A path is a sequence of symbols: <<d, n>> is the file n of the  *)
(* directory d, and TmpOf(p) is p followed by the suffix ".dupedog.tmp".   *)
(* Strings are compared lexicographically, as Go compares them.            *)
(***************************************************************************)
Dirs == {1, 2}

FileNames == {1, 2}

\* The files of the model: one in directory 1, two in directory 2.
BasePaths == {<<d, n>> : d \in Dirs, n \in FileNames} \ {<<1, 2>>}

dupedogTmp == <<9>>

TmpOf(p) == p \o dupedogTmp

AllPaths == BasePaths \cup {TmpOf(p) : p \in BasePaths}

\* filepath.Dir of a path of the model.
DirOf(p) == <<p[1]>>

\* The mount table: directory d is the root of device d.
DevOfDir(d) == d[1]

RECURSIVE PathLess(_, _)
PathLess(p, q) ==
    IF q = <<>> THEN FALSE
    ELSE IF p = <<>> THEN TRUE
    ELSE IF p[1] # q[1] THEN p[1] < q[1]
    ELSE PathLess(Tail(p), Tail(q))

\* strings.HasPrefix
HasPrefix(p, pref) ==
    /\ Len(pref) <= Len(p)
    /\ SubSeq(p, 1, Len(pref)) = pref

\* The first element of a path spelled relative to the working directory
\* ("./d"); the working directory of the model is the root directory.
Here == 8

\* filepath.Abs
Abs(p) == IF p # <<>> /\ p[1] = Here THEN Tail(p) ELSE p

\* The symbol of ".." in a relative path.
DotDot == 0

\* filepath.Rel(dir, path) for a directory and a file of the model.
Rel(dir, path) ==
    IF DirOf(path) = dir THEN Tail(path) ELSE <<DotDot>> \o path

\* The path a relative link target stored in directory dir names
\* (filepath.Join followed by Clean, as the kernel resolves it).
JoinRel(dir, rel) ==
    IF rel # <<>> /\ rel[1] = DotDot THEN Tail(rel) ELSE dir \o rel

(***************************************************************************)
(* The filesystem.  An entry is absent, a regular file (a name of the      *)
(* inode <<dev, ino>>), a symbolic link, or something else (a directory,   *)
(* a FIFO).  Content is one symbol per range of the file's schedule.       *)
(***************************************************************************)
NoId == <<0, 0>>

NoEntry == [kind |-> "none", id |-> NoId, target |-> <<>>, mtime |-> 0]

FileEntry(id) == [kind |-> "file", id |-> id, target |-> <<>>, mtime |-> 0]

SymlinkEntry(rel, t) == [kind |-> "symlink", id |-> NoId, target |-> rel, mtime |-> t]

OtherEntry(t) == [kind |-> "other", id |-> NoId, target |-> <<>>, mtime |-> t]

NoInode == [size |-> -1, content |-> <<>>, mtime |-> 0]

Exists(p) == p \in DOMAIN fs /\ fs[p].kind # "none"

\* st_nlink: the number of names of an inode.
Nlink(id) == Cardinality({p \in DOMAIN fs : fs[p].kind = "file" /\ fs[p].id = id})

\* The entry a path resolves to when opened (symbolic links followed once;
\* a link to a link does not occur in the model).
Resolve(p) ==
    IF ~Exists(p) THEN NoEntry
    ELSE IF fs[p].kind = "symlink"
         THEN LET q == JoinRel(DirOf(p), fs[p].target)
              IN  IF q \in DOMAIN fs /\ fs[q].kind = "file" THEN fs[q] ELSE NoEntry
         ELSE fs[p]

\* The content a path resolves to (<<-1>> when it resolves to nothing).
ContentOf(p) ==
    LET e == Resolve(p) IN
    IF e.kind = "file" THEN inodes[e.id].content ELSE <<-1>>

\* lstat's modification time of an entry.
LstatMtime(p) == IF fs[p].kind = "file" THEN inodes[fs[p].id].mtime ELSE fs[p].mtime

\* The device an entry lives on.
DevOfEntry(p) == IF fs[p].kind = "file" THEN fs[p].id[1] ELSE DevOfDir(DirOf(p))

\* link(2): the errno, in the order Linux checks them ("OK" on success).
LinkErrno(old, new) ==
    IF ~Exists(old) THEN "ENOENT"
    ELSE IF Exists(new) THEN "EEXIST"
    ELSE IF DevOfEntry(old) # DevOfDir(DirOf(new)) THEN "EXDEV"
    ELSE IF fs[old].kind = "other" THEN "EPERM"
    ELSE "OK"

\* symlink(2)
SymlinkErrno(new) == IF Exists(new) THEN "EEXIST" ELSE "OK"

\* rename(2) that unlinks the target and fails to put the new name in place.
RenameDropsTarget(old, new) == [fs EXCEPT ![new] = NoEntry]

\* rename(2) of old over new: new is replaced atomically; when both are names
\* of the same inode nothing happens and the call succeeds.
RenameFs(old, new) ==
    IF fs[old].kind = "file" /\ fs[new].kind = "file" /\ fs[old].id = fs[new].id
    THEN fs
    ELSE [fs EXCEPT ![new] = fs[old], ![old] = NoEntry]

\* unlink(2)
RemoveFs(p) == [fs EXCEPT ![p] = NoEntry]

(***************************************************************************)
(* types: Sorted collections.                                              *)
(***************************************************************************)
\* NewSorted: items ordered by their keys (paths), keys[i] being keyFunc of
\* items[i]; the keys of a collection are distinct paths.
NewSorted(items, keys) ==
    LET n == Len(items)
        Before(i, j) == \/ PathLess(keys[i], keys[j])
                        \/ (keys[i] = keys[j] /\ i < j)
        Rank(i) == 1 + Cardinality({j \in 1..n : Before(j, i)})
    IN  [k \in 1..n |-> items[CHOOSE i \in 1..n : Rank(i) = k]]

\* The key functions: a file's path, a sibling group's first path, a
\* group's first sibling group's first path.
FilePath(f) == f.Path

FirstPath(sg) == sg[1].Path

FirstFirstPath(g) == g[1][1].Path

NewSiblingGroup(fl) == NewSorted(fl, [i \in 1..Len(fl) |-> FilePath(fl[i])])

NewCandidateGroup(siblings) ==
    NewSorted(siblings, [i \in 1..Len(siblings) |-> FirstPath(siblings[i])])

NewCandidateGroups(groups) ==
    NewSorted(groups, [i \in 1..Len(groups) |-> FirstFirstPath(groups[i])])

NewDuplicateGroup(siblings) ==
    NewSorted(siblings, [i \in 1..Len(siblings) |-> FirstPath(siblings[i])])

\* The groups in the order they were collected.
UnsortedGroups(groups) == groups

NewDuplicateGroups(groups) ==
    NewSorted(groups, [i \in 1..Len(groups) |-> FirstFirstPath(groups[i])])

\* A set as a slice, in some order (Go's map iteration order is unspecified;
\* every use below sorts the result).
RECURSIVE SetToSeq(_)
SetToSeq(S) ==
    IF S = {} THEN <<>>
    ELSE LET x == CHOOSE y \in S : TRUE IN <<x>> \o SetToSeq(S \ {x})

RECURSIVE Flatten(_)
Flatten(ss) == IF ss = <<>> THEN <<>> ELSE ss[1] \o Flatten(Tail(ss))

(***************************************************************************)
(* Scanner.Run, as a function of the filesystem: the records of the        *)
(* regular files of every root directory, root by root.                    *)
(***************************************************************************)
newFileInfo(p) ==
    [Path |-> p, Size |-> inodes[fs[p].id].size, ModTime |-> inodes[fs[p].id].mtime,
     Dev |-> fs[p].id[1], Ino |-> fs[p].id[2], Nlink |-> Nlink(fs[p].id)]

\* filepath.Base
BaseOf(p) == Tail(p)

\* An exclude pattern of the model is a suffix s, standing for the glob "*s".
GlobMatch(pattern, base) ==
    /\ Len(pattern) <= Len(base)
    /\ SubSeq(base, Len(base) - Len(pattern) + 1, Len(base)) = pattern

shouldExclude(p) == \E pattern \in cfg.excludes : GlobMatch(pattern, BaseOf(p))

\* listDirectory and the filter of walkDirectory for one root.
WalkRoot(root) ==
    LET found == {p \in DOMAIN fs : DirOf(p) = root /\ fs[p].kind = "file"}
        kept  == {p \in found : /\ inodes[fs[p].id].size >= cfg.minSize
                                /\ ~shouldExclude(p)}
        asSeq == SetToSeq(kept)
    IN  NewSorted([i \in 1..Len(asSeq) |-> newFileInfo(asSeq[i])], asSeq)

ScannerRun == Flatten([i \in 1..Len(cfg.paths) |-> WalkRoot(Abs(cfg.paths[i]))])

(***************************************************************************)
(* Screener.Run                                                            *)
(***************************************************************************)
InoKey(f) == <<0, f.Ino>>

DevInoKey(f) == <<f.Dev, f.Ino>>

\* groupByIno / groupByDevIno: one sibling group per key, keys[i] being the
\* map key of fl[i].
GroupBy(fl, keys) ==
    LET ks == {keys[i] : i \in 1..Len(fl)}
        Members(k) == SelectSeq(fl, LAMBDA f : \E i \in 1..Len(fl) : fl[i] = f /\ keys[i] = k)
    IN  NewCandidateGroup(SetToSeq({NewSiblingGroup(Members(k)) : k \in ks}))

groupByIno(fl) == GroupBy(fl, [i \in 1..Len(fl) |-> InoKey(fl[i])])

groupByDevIno(fl) == GroupBy(fl, [i \in 1..Len(fl) |-> DevInoKey(fl[i])])

\* The choice of grouping ignoring the flag.
groupFuncByIno(fl, trustDeviceBoundaries) == groupByIno(fl)

groupFunc(fl, trustDeviceBoundaries) ==
    IF trustDeviceBoundaries THEN groupByDevIno(fl) ELSE groupByIno(fl)

ScreenerRun(fl, trustDeviceBoundaries) ==
    LET sizes == {fl[i].Size : i \in 1..Len(fl)}
        OfSize(sz) == SelectSeq(fl, LAMBDA f : f.Size = sz)
        result == {groupFunc(OfSize(sz), trustDeviceBoundaries) : sz \in sizes}
    IN  NewCandidateGroups(SetToSeq({g \in result : Len(g) >= 2}))

(***************************************************************************)
(* Verifier                                                                *)
(***************************************************************************)
\* The bytes of [start, start+size) of an inode ino: content holds one symbol
\* per range of the schedule of the inode's size.
RangeBytes(ino, start, size) ==
    LET sched == ScheduleFrom(NoJob, << <<[Size |-> ino.size]>> >>)
        hit   == {k \in 1..Len(sched) : sched[k] = <<start, size>>}
    IN  IF hit = {} THEN <<-2, start, size>>
        ELSE <<ino.content[CHOOSE k \in hit : TRUE]>>

\* hashRange: SHA-256 of the range, taken to be collision free, so the hash
\* is the range's bytes; err when the path cannot be opened or read.
hashRange(p, start, size, ioError) ==
    LET e == Resolve(p) IN
    IF e.kind # "file" THEN [err |-> "ENOENT", hash |-> <<>>]
    ELSE IF ioError THEN [err |-> "EIO", hash |-> <<>>]
    ELSE [err |-> "", hash |-> RangeBytes(inodes[e.id], start, size)]

\* The last path of a sibling group.
LastOfGroup(sibs) == sibs[Len(sibs)]

\* The file a sibling group is hashed by.
Representative(sibs) == sibs[1]

\* A hashing loop that takes every read to have succeeded.
HashesIgnoringFailure(j, failing) ==
    [i \in 1..Len(j.siblings) |->
        hashRange(Representative(j.siblings[i]).Path, j.start, j.size, FALSE)]

\* The hashing loop of verifyFilesInJob with the hash cache disabled
\* (cache.Open("")): Lookup misses, Store does nothing.  failing: the
\* representatives whose read fails.  One hashRange result per sibling group.
Hashes(j, failing) ==
    [i \in 1..Len(j.siblings) |->
        hashRange(Representative(j.siblings[i]).Path, j.start, j.size,
                  Representative(j.siblings[i]).Path \in failing)]

\* A grouping that also puts the first hashed sibling group into every hash
\* group.
GroupByHashWithFirst(siblings, hashed) ==
    LET ok     == {i \in DOMAIN hashed : hashed[i].err = ""}
        first  == {i \in ok : \A o \in ok : i <= o}
        hashes == {hashed[i].hash : i \in ok}
        Of(h)  == SetToSeq({i \in ok : hashed[i].hash = h} \cup first)
    IN  [h \in hashes |-> [k \in 1..Len(Of(h)) |-> siblings[Of(h)[k]]]]

\* hashGroups of verifyFilesInJob: each hash mapped to the sibling groups that
\* produced it, in job order; a failed sibling group is in none.
GroupByHash(siblings, hashed) ==
    LET ok     == {i \in DOMAIN hashed : hashed[i].err = ""}
        hashes == {hashed[i].hash : i \in ok}
        Of(h)  == SetToSeq({i \in ok : hashed[i].hash = h})
    IN  [h \in hashes |-> [k \in 1..Len(Of(h)) |-> siblings[Of(h)[k]]]]

\* verifyFilesInJob: the files are hashed once, then grouped.
verifyFilesInJob(j, failing) ==
    CHOOSE r \in {GroupByHash(j.siblings, hashed) : hashed \in {Hashes(j, failing)}} : TRUE

\* A processJob that does not drop a hash group of one sibling group.
DispatchAll(j, byHash) ==
    LET groups == {NewCandidateGroup(byHash[h]) : h \in DOMAIN byHash}
    IN  [results |-> {NewDuplicateGroup(g) : g \in {x \in groups : nextJob(j, x).done}},
         jobs    |-> {nextJob(j, g).next : g \in {x \in groups : ~nextJob(j, x).done}}]

\* The loop of processJob over the hash groups: a group of one is dropped, a
\* group whose schedule is finished is a result, any other is the next job.
Dispatch(j, byHash) ==
    LET groups == {NewCandidateGroup(byHash[h]) : h \in DOMAIN byHash}
        alive  == {g \in groups : Len(g) >= 2}
    IN  [results |-> {NewDuplicateGroup(g) : g \in {x \in alive : nextJob(j, x).done}},
         jobs    |-> {nextJob(j, g).next : g \in {x \in alive : ~nextJob(j, x).done}}]

\* processJob: what a job sends on resultsCh and on jobCh.
processJob(j, failing) ==
    CHOOSE r \in {Dispatch(j, byHash) : byHash \in {verifyFilesInJob(j, failing)}} : TRUE

(***************************************************************************)
(* Deduper: source selection and the loops of Run.                         *)
(***************************************************************************)
\* The files of a duplicate group, group by group.
AllFiles(dupeGroup) == Flatten(dupeGroup)

\* The first file of the first sibling group that has a file with pref as a
\* prefix of its path.
FirstOfGroupWithPrefix(dupeGroup, pref) ==
    LET has(s) == \E m \in 1..Len(dupeGroup[s]) : HasPrefix(dupeGroup[s][m].Path, pref)
        g == CHOOSE s \in 1..Len(dupeGroup) : has(s) /\ \A o \in 1..(s - 1) : ~has(o)
    IN  dupeGroup[g][1]

\* The first file, in group order, with pref as a prefix of its path.
FirstWithPrefix(dupeGroup, pref) ==
    LET fl == AllFiles(dupeGroup)
        i  == CHOOSE k \in 1..Len(fl) :
                  /\ HasPrefix(fl[k].Path, pref)
                  /\ \A m \in 1..(k - 1) : ~HasPrefix(fl[m].Path, pref)
    IN  fl[i]

\* The nlink rule: the later group wins only on a greater Nlink, or on an
\* equal Nlink and a smaller path.
RECURSIVE BestByNlink(_, _, _)
BestByNlink(dupeGroup, i, best) ==
    IF i > Len(dupeGroup) THEN best
    ELSE LET rep == dupeGroup[i][1]
             take == \/ rep.Nlink > best.Nlink
                     \/ (rep.Nlink = best.Nlink /\ PathLess(rep.Path, best.Path))
         IN  BestByNlink(dupeGroup, i + 1, IF take THEN rep ELSE best)

\* selectSource without the priority rule.
selectSourceByNlink(dupeGroup, pathPriority) ==
    BestByNlink(dupeGroup, 2, dupeGroup[1][1])

selectSource(dupeGroup, pathPriority) ==
    LET matching == {k \in 1..Len(pathPriority) :
                        \E f \in {AllFiles(dupeGroup)[m] : m \in 1..Len(AllFiles(dupeGroup))} :
                            HasPrefix(f.Path, pathPriority[k])}
    IN  IF matching # {}
        THEN FirstWithPrefix(dupeGroup,
                 pathPriority[CHOOSE k \in matching : \A m \in matching : k <= m])
        ELSE BestByNlink(dupeGroup, 2, dupeGroup[1][1])

\* A containsFile that finds the source in no sibling group.
containsFileNever(siblings, f) == FALSE

\* containsFile comparing inode numbers only.
containsFileByIno(siblings, f) ==
    \E i \in 1..Len(siblings) : siblings[i].Ino = f.Ino

\* containsFile: by device and inode.
containsFile(siblings, f) ==
    \E i \in 1..Len(siblings) : siblings[i].Dev = f.Dev /\ siblings[i].Ino = f.Ino

RECURSIVE SumLen(_)
SumLen(ss) == IF ss = <<>> THEN 0 ELSE Len(ss[1]) + SumLen(Tail(ss))

RECURSIVE countTargetFilesFrom(_, _)
countTargetFilesFrom(groups, i) ==
    IF i > Len(groups) THEN 0
    ELSE (IF Len(groups[i]) < 2 THEN 0
          ELSE SumLen(groups[i]) - Len(groups[i][1]))
         + countTargetFilesFrom(groups, i + 1)

countTargetFiles(groups) == countTargetFilesFrom(groups, 1)

\* The loops of Run from indices (gi, si, ti) on: the next target dedupeFile
\* is called for, and the number of groups finished on the way.
RECURSIVE Seek(_, _, _, _, _)
Seek(groups, gi, si, ti, sets) ==
    IF gi > Len(groups) THEN [done |-> TRUE, gi |-> gi, si |-> 1, ti |-> 1, sets |-> sets]
    ELSE IF Len(groups[gi]) < 2 THEN Seek(groups, gi + 1, 1, 1, sets)
    ELSE IF si > Len(groups[gi]) THEN Seek(groups, gi + 1, 1, 1, sets + 1)
    ELSE IF containsFile(groups[gi][si], selectSource(groups[gi], cfg.paths))
         THEN Seek(groups, gi, si + 1, 1, sets)
    ELSE IF ti > Len(groups[gi][si]) THEN Seek(groups, gi, si + 1, 1, sets)
    ELSE [done |-> FALSE, gi |-> gi, si |-> si, ti |-> ti, sets |-> sets]

\* source and target of the dedupeFile call in progress.
Source == selectSource(duplicates[dpos.gi], cfg.paths)

Target == duplicates[dpos.gi][dpos.si][dpos.ti]

Tmp == TmpOf(Target.Path)

NoHandle == [id |-> NoId, locked |-> FALSE]

\* No run has ended yet.
NoRun == [n |-> 0, fs |-> <<>>, duplicates |-> <<>>]

\* A DedupeResult; statMtime, lockBusy, committed and overwrote record what
\* the call observed: the mtime f.Stat returned (-1 if not reached), whether
\* flock found the file locked, whether the rename over the target succeeded,
\* and whether the file it replaced had been written to since the scan;
\* linkErr is the error CreateHardlink returned from os.Link ("" if none);
\* srcStale is whether, when dedupeFile was called, the source path no longer
\* named a file with the mtime the Scanner recorded.
NoResult ==
    [Source |-> <<>>, Target |-> <<>>, Action |-> "", Err |-> "", BytesSaved |-> 0,
     scanMtime |-> -1, statMtime |-> -1, lockBusy |-> FALSE, committed |-> FALSE,
     overwrote |-> FALSE, linkErr |-> "", srcStale |-> FALSE]

\* The fallback test of dedupeFile ignoring the flag.
FallbackAlways(enabled) == TRUE

\* d.symlinkFallback
Fallback(enabled) == enabled

\* A skip that loses its error.
SkippedSilently(r, err) == [r EXCEPT !.Action = "skipped"]

Skipped(r, err) == [r EXCEPT !.Action = "skipped", !.Err = err]

Linked(r, action) ==
    [r EXCEPT !.Action = action, !.Err = "", !.BytesSaved = Target.Size]

\* The index of the dedupeFile call in progress.
Call == Len(dres) + 1

(***************************************************************************)
(* Deduper.Run and dedupeFile, one system call per step.                   *)
(***************************************************************************)
\* Run up to the first call of dedupeFile (or to the end, with no target).
DStart ==
    /\ stage = "dedupe" /\ dpc = "idle"
    /\ LET pos == Seek(duplicates, 1, 1, 1, 0) IN
       /\ st' = [totalFiles |-> countTargetFiles(duplicates),
                 processedFiles |-> 0, totalSets |-> Len(duplicates),
                 processedSets |-> pos.sets, savedBytes |-> 0]
       /\ dpos' = [gi |-> pos.gi, si |-> pos.si, ti |-> pos.ti]
       /\ dpc' = IF pos.done THEN "done" ELSE "open"
       /\ stage' = IF pos.done THEN "done" ELSE stage
    /\ dret' = NoResult
    /\ UNCHANGED <<jobVars, fsVars, cfg, files, candidates, vFailed, vHashed, duplicates,
                   handle, dres, errs, ops, envVars>>

\* The source path no longer names a file with the mtime the Scanner
\* recorded for it.
SourceStale ==
    LET e == Resolve(Source.Path) IN
    e.kind # "file" \/ inodes[e.id].mtime # Source.ModTime

\* f, err := os.Open(target.Path)
DOpen ==
    /\ dpc = "open"
    /\ LET e == Resolve(Target.Path)
           r == [NoResult EXCEPT !.Source = Source.Path, !.Target = Target.Path,
                                 !.scanMtime = Target.ModTime,
                                 !.srcStale = SourceStale]
       IN  IF e.kind # "file"
           THEN /\ dret' = Skipped(r, "ENOENT")
                /\ dpc' = "ret"
                /\ UNCHANGED handle
           ELSE /\ dret' = r
                /\ handle' = [id |-> e.id, locked |-> FALSE]
                /\ dpc' = "flock"
    /\ UNCHANGED <<jobVars, fsVars, pipeVars, dpos, dres, st, errs, ops, envVars>>

\* Whether flock(LOCK_EX|LOCK_NB) on the handle is refused.
FlockNeverRefused(id) == FALSE

FlockRefused(id) == extLock = id

\* syscall.Flock(f.Fd(), LOCK_EX|LOCK_NB): never waits.
DFlock ==
    /\ dpc = "flock"
    /\ IF FlockRefused(handle.id)
       THEN /\ dret' = Skipped([dret EXCEPT !.lockBusy = (extLock = handle.id)],
                                "file in use")
            /\ dpc' = "ret"
            /\ UNCHANGED handle
       ELSE /\ handle' = [handle EXCEPT !.locked = TRUE]
            /\ dpc' = "stat"
            /\ dret' = [dret EXCEPT !.lockBusy = (extLock = handle.id)]
    /\ UNCHANGED <<jobVars, fsVars, pipeVars, dpos, dres, st, errs, ops, envVars>>

\* info.ModTime().Equal(target.ModTime)
MtimeAlwaysEqual(seen, scanned) == TRUE

MtimeEqual(seen, scanned) == seen = scanned

DryRunOff(c) == FALSE

DryRun(c) == c.dryRun

\* info, err := f.Stat(); the mtime check; the dry-run return.
DStat ==
    /\ dpc = "stat"
    /\ LET seen == inodes[handle.id].mtime
           r    == [dret EXCEPT !.statMtime = seen]
       IN  IF ~MtimeEqual(seen, Target.ModTime)
           THEN dret' = Skipped(r, "file modified since scan") /\ dpc' = "ret"
           ELSE IF DryRun(cfg)
           THEN dret' = Linked(r, "hardlink") /\ dpc' = "ret"
           ELSE dret' = r /\ dpc' = "link"
    /\ UNCHANGED <<jobVars, fsVars, pipeVars, dpos, handle, dres, st, errs, ops, envVars>>

\* dedupeFile after CreateHardlink returned err: the symlink fallback on EXDEV.
AfterHardlinkError(err) ==
    LET r == [dret EXCEPT !.linkErr = err] IN
    IF err = "EXDEV"
    THEN IF ~Fallback(cfg.symlinkFallback)
         THEN /\ dret' = Skipped(r, "cannot hardlink across device boundaries")
              /\ dpc' = "ret"
         ELSE dret' = r /\ dpc' = "sstat"
    ELSE dret' = Skipped(r, err) /\ dpc' = "ret"

\* The error of os.Link(source, tmp): the kernel's, or an injected EMLINK.
LinkOutcomes(old, new) ==
    {LinkErrno(old, new)}
        \cup (IF LinkErrno(old, new) = "OK" /\ faults < MaxFaults THEN {"EMLINK"} ELSE {})

\* CreateHardlink: err := os.Link(source, tmp)
HLink ==
    /\ dpc \in {"link", "relink"}
    /\ \E err \in LinkOutcomes(Source.Path, Tmp) :
        /\ faults' = IF err = "EMLINK" THEN faults + 1 ELSE faults
        /\ IF err = "OK"
           THEN /\ fs' = [fs EXCEPT ![Tmp] = fs[Source.Path]]
                /\ ops' = ops \cup {<<Call, "link", Tmp>>}
                /\ dpc' = "rename"
                /\ UNCHANGED dret
           ELSE IF err = "EEXIST" /\ dpc = "link"
           THEN /\ dpc' = "cleanup"
                /\ UNCHANGED <<fs, ops, dret>>
           ELSE /\ AfterHardlinkError(err)
                /\ UNCHANGED <<fs, ops>>
    /\ UNCHANGED <<jobVars, inodes, pipeVars, dpos, handle, dres, st, errs,
                   extLock, written, fs0, inodes0, prevRun>>

\* The age test of tryCleanupOrphanedTmp: info.ModTime().After(cutoff).
TooRecentNever(mtime, maxAge) == FALSE

TooRecent(mtime, maxAge) == mtime > Now - maxAge

\* The link-count test of tryCleanupOrphanedTmp: stat.Nlink <= 1.
OnlyCopy(nlink) == nlink <= 1

\* tryCleanupOrphanedTmp: "" when the file is removed, else the reason it is
\* left in place.
tryCleanupOrphanedTmp(path, maxAge) ==
    IF ~Exists(path) THEN "lstat"
    ELSE IF TooRecent(LstatMtime(path), maxAge) THEN "file too recent"
    ELSE IF fs[path].kind = "symlink" THEN ""
    ELSE IF fs[path].kind # "file" THEN "not a regular file or symlink"
    ELSE IF OnlyCopy(Nlink(fs[path].id)) THEN "may be only copy of data"
    ELSE ""

\* CreateHardlink / CreateSymlink on EEXIST: clean up the tmp file, then retry.
TmpCleanup ==
    /\ dpc \in {"cleanup", "scleanup"}
    /\ LET why == tryCleanupOrphanedTmp(Tmp, orphanedTmpMaxAge) IN
       IF why = ""
       THEN /\ fs' = RemoveFs(Tmp)
            /\ ops' = ops \cup {<<Call, "remove", Tmp>>}
            /\ dpc' = IF dpc = "cleanup" THEN "relink" ELSE "resymlink"
            /\ UNCHANGED dret
       ELSE /\ dret' = Skipped(dret, "tmp file exists and cannot be cleaned")
            /\ dpc' = "ret"
            /\ UNCHANGED <<fs, ops>>
    /\ UNCHANGED <<jobVars, inodes, pipeVars, dpos, handle, dres, st, errs, envVars>>

\* Whether os.Rename fails (injected).
RenameOutcomes == {"OK"} \cup (IF faults < MaxFaults THEN {"EIO"} ELSE {})

\* CreateHardlink: os.Rename(tmp, target)
HRename ==
    /\ dpc = "rename"
    /\ \E err \in RenameOutcomes :
        IF err = "OK"
        THEN /\ fs' = RenameFs(Tmp, Target.Path)
             /\ ops' = ops \cup {<<Call, "rename", Target.Path>>}
             /\ dret' = [Linked(dret, "hardlink") EXCEPT
                            !.committed = TRUE,
                            !.overwrote = (\E w \in written : w.id = handle.id)]
             /\ dpc' = "ret"
             /\ UNCHANGED faults
        ELSE /\ dret' = [dret EXCEPT !.Err = err]
             /\ dpc' = "rmtmp"
             /\ faults' = faults + 1
             /\ UNCHANGED <<fs, ops>>
    /\ UNCHANGED <<jobVars, inodes, pipeVars, dpos, handle, dres, st, errs,
                   extLock, written, fs0, inodes0, prevRun>>

\* CreateHardlink / CreateSymlink: _ = os.Remove(tmp) after a failed rename;
\* dedupeFile then returns the rename's error as a skip.
RemoveTmp ==
    /\ dpc \in {"rmtmp", "srmtmp"}
    /\ fs' = RemoveFs(Tmp)
    /\ ops' = ops \cup {<<Call, "remove", Tmp>>}
    /\ dret' = Skipped(dret, dret.Err)
    /\ dpc' = "ret"
    /\ UNCHANGED <<jobVars, inodes, pipeVars, dpos, handle, dres, st, errs, envVars>>

\* CreateSymlink: os.Stat(source)
SStat ==
    /\ dpc = "sstat"
    /\ IF Resolve(Source.Path).kind = "none"
       THEN dret' = Skipped(dret, "source missing before symlink creation") /\ dpc' = "ret"
       ELSE dret' = dret /\ dpc' = "symlink"
    /\ UNCHANGED <<jobVars, fsVars, pipeVars, dpos, handle, dres, st, errs, ops, envVars>>

\* CreateSymlink: filepath.Rel and os.Symlink(relPath, tmp)
SSymlink ==
    /\ dpc \in {"symlink", "resymlink"}
    /\ LET relPath == Rel(DirOf(Target.Path), Source.Path)
           err     == SymlinkErrno(Tmp)
       IN  IF err = "OK"
           THEN /\ fs' = [fs EXCEPT ![Tmp] = SymlinkEntry(relPath, Now)]
                /\ ops' = ops \cup {<<Call, "symlink", Tmp>>}
                /\ dpc' = "srename"
                /\ UNCHANGED dret
           ELSE IF dpc = "symlink"
           THEN /\ dpc' = "scleanup"
                /\ UNCHANGED <<fs, ops, dret>>
           ELSE /\ dret' = Skipped(dret, err)
                /\ dpc' = "ret"
                /\ UNCHANGED <<fs, ops>>
    /\ UNCHANGED <<jobVars, inodes, pipeVars, dpos, handle, dres, st, errs, envVars>>

\* CreateSymlink: os.Rename(tmp, target)
SRename ==
    /\ dpc = "srename"
    /\ \E err \in RenameOutcomes :
        IF err = "OK"
        THEN /\ fs' = RenameFs(Tmp, Target.Path)
             /\ ops' = ops \cup {<<Call, "rename", Target.Path>>}
             /\ dret' = [Linked(dret, "symlink") EXCEPT
                            !.committed = TRUE,
                            !.overwrote = (\E w \in written : w.id = handle.id)]
             /\ dpc' = "ret"
             /\ UNCHANGED faults
        ELSE /\ dret' = [dret EXCEPT !.Err = err]
             /\ dpc' = "srmtmp"
             /\ faults' = faults + 1
             /\ UNCHANGED <<fs, ops>>
    /\ UNCHANGED <<jobVars, inodes, pipeVars, dpos, handle, dres, st, errs,
                   extLock, written, fs0, inodes0, prevRun>>

\* dedupeFile returns: the deferred f.Close() runs, which drops the lock; Run
\* holds the result.
DClose ==
    /\ dpc = "ret"
    /\ handle' = NoHandle
    /\ dpc' = "result"
    /\ UNCHANGED <<jobVars, fsVars, pipeVars, dpos, dret, dres, st, errs, ops, envVars>>

\* Run with the result of dedupeFile: d.sendError, a send that waits for
\* room on the error channel, or the update of the stats; then the loops go
\* on to the next target.
DReturn ==
    /\ dpc = "result"
    /\ dres' = Append(dres, dret)
    /\ dret' = NoResult
    /\ LET pos == Seek(duplicates, dpos.gi, dpos.si, dpos.ti + 1, 0) IN
       /\ IF dret.Err # ""
          THEN /\ Len(sc.errq) < ErrCap
               /\ sc' = [sc EXCEPT !.errq = Append(@, <<Target.Path, dret.Err>>)]
               /\ errs' = Append(errs, <<Target.Path, dret.Err>>)
               /\ st' = [st EXCEPT !.processedSets = @ + pos.sets]
          ELSE /\ UNCHANGED <<sc, errs>>
               /\ st' = [st EXCEPT !.savedBytes = @ + dret.BytesSaved,
                                   !.processedFiles = @ + 1,
                                   !.processedSets = @ + pos.sets]
       /\ dpos' = [gi |-> pos.gi, si |-> pos.si, ti |-> pos.ti]
       /\ dpc' = IF pos.done THEN "done" ELSE "open"
       /\ stage' = IF pos.done THEN "done" ELSE stage
    /\ UNCHANGED <<jobGroup, jobPrev, jobRanges, jobDone, selGroup, selPriority, selSource,
                   cache, clog, tree, walkers, vr, vworkers>>
    /\ UNCHANGED <<fsVars, cfg, files, candidates, vFailed, vHashed, duplicates,
                   handle, ops, envVars>>

(***************************************************************************)
(* runDedupe: scan, screen, verify.                                        *)
(***************************************************************************)
\* Phase 1: scanner.New(...).Run(); nothing found ends the run.
Scan ==
    /\ stage = "scan"
    /\ files' = ScannerRun
    /\ stage' = IF Len(ScannerRun) = 0 THEN "done" ELSE "screen"
    /\ UNCHANGED <<jobVars, fsVars, cfg, candidates, vFailed, vHashed, duplicates,
                   dedVars, envVars>>

\* Phase 2: screener.New(...).Run(); no candidates ends the run.
Screen ==
    /\ stage = "screen"
    /\ LET cands == ScreenerRun(files, cfg.trustDeviceBoundaries) IN
       /\ candidates' = cands
       /\ stage' = IF Len(cands) = 0 THEN "done" ELSE "queue"
    /\ UNCHANGED <<jobVars, fsVars, cfg, files, vFailed, vHashed, duplicates,
                   dedVars, envVars>>

\* Verifier.Run: one initial job per candidate group.
InitialJobs(groups) == {nextJob(NoJob, groups[i]).next : i \in 1..Len(groups)}

\* Verifier.Run when no read fails: the groups it returns.
RECURSIVE VerifyAll(_, _)
VerifyAll(jobs, results) ==
    IF jobs = {} THEN NewDuplicateGroups(SetToSeq(results))
    ELSE LET j == CHOOSE x \in jobs : TRUE
             Rest(r) == VerifyAll((jobs \ {j}) \cup r.jobs, results \cup r.results)
         IN  CHOOSE v \in {Rest(r) : r \in {processJob(j, {})}} : TRUE

VerifierRun(groups) == VerifyAll(InitialJobs(groups), {})

(***************************************************************************)
(* Other processes.                                                        *)
(***************************************************************************)
LiveIds == {fs[p].id : p \in {q \in BasePaths : fs[q].kind = "file"}}

\* The content another process leaves behind.
Scribble(content) == [k \in DOMAIN content |-> 3]

\* Another process writes to a scanned file (an advisory lock does not stop
\* it); duringLock records whether the engine held its lock at that moment.
ExtWrite ==
    /\ cfg.peers
    /\ dpc \notin {"done"}
    /\ Cardinality(written) < MaxWrites
    /\ \E id \in LiveIds :
        /\ inodes' = [inodes EXCEPT ![id].content = Scribble(@), ![id].mtime = Now]
        /\ written' = written \cup
              {[id |-> id, duringLock |-> (handle.locked /\ handle.id = id)]}
    /\ UNCHANGED <<jobVars, fs, pipeVars, dedVars, extLock, faults, fs0, inodes0, prevRun>>

\* Another process takes LOCK_EX on a scanned file (it waits while the engine
\* holds its own lock).
ExtLock ==
    /\ cfg.peers
    /\ dpc \notin {"done"}
    /\ extLock = NoId
    /\ \E id \in LiveIds :
        /\ ~(handle.locked /\ handle.id = id)
        /\ extLock' = id
    /\ UNCHANGED <<jobVars, fsVars, pipeVars, dedVars, written, faults, fs0, inodes0, prevRun>>

ExtUnlock ==
    /\ cfg.peers
    /\ extLock # NoId
    /\ extLock' = NoId
    /\ UNCHANGED <<jobVars, fsVars, pipeVars, dedVars, written, faults, fs0, inodes0, prevRun>>

(***************************************************************************)
(* The hash cache (internal/cache): two database files, the one at the     *)
(* cache path read by this session and the one at path.new written by it.  *)
(***************************************************************************)
hashSize == 32

keyVersion == 1

\* A database file that does not exist, or a nil *bolt.DB.
NoDb == [exists |-> FALSE, data |-> <<>>]

\* A database whose bucket has no entries.
EmptyDb == [exists |-> TRUE, data |-> <<>>]

\* Byte k (0: least significant) of the two's complement form of v.
ByteOf(v, k) == (v \div (256 ^ k)) % 256

\* binary.Write(buf, binary.BigEndian, v) of a 64-bit integer: eight bytes,
\* most significant first. The model's integers fit 32 bits, so the upper
\* four bytes are the sign extension.
BigEndian(v) ==
    LET s == IF v < 0 THEN 255 ELSE 0 IN
    <<s, s, s, s, ByteOf(v, 3), ByteOf(v, 2), ByteOf(v, 1), ByteOf(v, 0)>>

\* ver(1) + path + NUL + fileSize(8) + ino(8) + mtime(8) + start(8) + size(8);
\* the bytes of a path are its elements.
makeKey(fi, start, size) ==
    <<keyVersion>> \o fi.Path \o <<0>> \o BigEndian(fi.Size) \o BigEndian(fi.Ino)
        \o BigEndian(fi.ModTime) \o BigEndian(start) \o BigEndian(size)

\* b.Put(key, value)
Put(db, key, value) ==
    [db EXCEPT !.data = [k \in DOMAIN db.data \cup {key} |->
                            IF k = key THEN value ELSE db.data[k]]]

\* b.Get(key): the value, or the empty slice when the key is absent.
Get(db, key) == IF key \in DOMAIN db.data THEN db.data[key] ELSE <<>>

\* Cache.Store on the write database: a hash of another length than hashSize
\* is not stored.
StoreDb(c, fi, start, size, hash) ==
    IF ~c.enabled \/ ~c.newFile.exists \/ Len(hash) # hashSize
    THEN c
    ELSE [c EXCEPT !.newFile = Put(c.newFile, makeKey(fi, start, size), hash)]

\* A Lookup that leaves the write database alone.
NoCopyOnHit(c, fi, start, size, hash) == c

\* Lookup's hit: the entry is copied to the write database.
CopyOnHit(c, fi, start, size, hash) == StoreDb(c, fi, start, size, hash)

\* The hash Cache.Lookup returns (<<>>: nil, a miss).
LookupHash(c, fi, start, size) ==
    IF ~c.enabled \/ ~c.readDB.exists
    THEN <<>>
    ELSE LET data == Get(c.readDB, makeKey(fi, start, size)) IN
         IF Len(data) = hashSize THEN data ELSE <<>>

\* A session's ghost summary: the hash last given to Store for each record,
\* the records a Lookup hit, how many calls the session made and whether it
\* was closed. Of the session before the previous one the log keeps the
\* records it left in its database.
NoSession == [stored |-> <<>>, hits |-> {}, calls |-> 0, closed |-> FALSE]

NoLookup == [session |-> 0, rec |-> <<>>, hash |-> <<>>]

NoCache ==
    [path |-> "", enabled |-> FALSE, open |-> FALSE, readDB |-> NoDb,
     file |-> NoDb, newFile |-> NoDb]

NoCacheLog ==
    [session |-> 0, cur |-> NoSession, prev |-> NoSession, prev2 |-> {},
     last |-> NoLookup]

\* The state of the cache variables outside SpecCache.
CacheIdle ==
    /\ cache = NoCache
    /\ clog = NoCacheLog

\* A path of the tree that has no node.
NoNode == [kind |-> "none", err |-> "", size |-> 0, id |-> NoId, mtime |-> 0, nlink |-> 0]

\* The Scanner before runDedupe has parsed its options.
NoScanner ==
    [opts |-> [paths |-> <<>>, minSizeStr |-> "", excludes |-> {}, workers |-> 0],
     pc |-> "idle", minSize |-> 0, i |-> 1, sem |-> 0, wg |-> 0, ch |-> <<>>,
     closed |-> FALSE, results |-> <<>>, collector |-> "idle", errq |-> <<>>,
     reported |-> <<>>, out |-> <<>>, sent |-> <<>>, sentClosed |-> FALSE,
     peak |-> 0]

\* The state of the Scanner's variables outside the specifications that run
\* its tasks.
WalkIdle ==
    /\ tree = <<>>
    /\ sc = NoScanner
    /\ walkers = <<>>

\* The Verifier before Run.
NoVerifier ==
    [pc |-> "idle", init |-> 1, jobCh |-> <<>>, jobClosed |-> FALSE, resCh |-> <<>>,
     resClosed |-> FALSE, pending |-> 0, workerWg |-> 0, sem |-> 0, dups |-> <<>>,
     out |-> <<>>, sentClosed |-> FALSE]

\* The state of the Verifier's task variables outside the specification
\* that runs its tasks.
VerifierIdle ==
    /\ vr = NoVerifier
    /\ vworkers = <<>>

AuxIdle == CacheIdle /\ WalkIdle /\ VerifierIdle

(***************************************************************************)
(* Initial states.                                                         *)
(***************************************************************************)
Devs == {1, 2}

\* Inode numbers of scanned files; OrphanIno is the inode number of a tmp
\* file that has an inode of its own.
Inos == {1, 2}

OrphanIno == 3

InodeIds == {<<d, i>> : d \in Devs, i \in Inos \cup {OrphanIno}}

\* File sizes of the model: one range (small) and two ranges (medium).
FileSizes == {1, probeSize + 1}

\* Contents of a file of a size: small files are <<1>> or <<2>>; medium files
\* are <<1, 1>>, <<1, 2>> (same head, another tail) or <<2, 1>> (another
\* head).
Contents(size) ==
    IF size <= probeSize THEN {<<1>>, <<2>>} ELSE {<<1, 1>>, <<1, 2>>, <<2, 1>>}

\* The orders the root directories can be given in on the command line.
RootOrders == {<< <<1>>, <<2>> >>, << <<2>>, <<1>> >>}

\* The command lines of Spec: the roots in either order, spelled as absolute
\* paths or relative to the working directory.
CliRoots ==
    RootOrders \cup {<< <<Here>> \o o[1], <<Here>> \o o[2] >> : o \in RootOrders}

NoCfg ==
    [paths |-> <<>>, minSize |-> 1, excludes |-> {}, trustDeviceBoundaries |-> FALSE,
     dryRun |-> FALSE, symlinkFallback |-> FALSE, peers |-> FALSE, workers |-> 0]

NoStats ==
    [totalFiles |-> 0, processedFiles |-> 0, totalSets |-> 0, processedSets |-> 0,
     savedBytes |-> 0]

NoPos == [gi |-> 1, si |-> 1, ti |-> 1]

\* selectSource's nil result.
NoFile == [Path |-> <<>>, Size |-> 0, ModTime |-> 0, Dev |-> 0, Ino |-> 0, Nlink |-> 0]

\* The state of the selection variables outside SpecSelect.
SelectIdle ==
    /\ selGroup = <<>>
    /\ selPriority = <<>>
    /\ selSource = NoFile

\* The state of the schedule variables outside SpecJob.
JobIdle ==
    /\ jobGroup = <<>>
    /\ jobPrev = NoJob
    /\ jobRanges = <<>>
    /\ jobDone = TRUE
    /\ SelectIdle

\* The state of the engine variables in SpecJob.
EngineIdle ==
    /\ fs = [p \in AllPaths |-> NoEntry]
    /\ inodes = [id \in InodeIds |-> NoInode]
    /\ cfg = NoCfg
    /\ stage = "done"
    /\ files = <<>> /\ candidates = <<>> /\ vFailed = {} /\ vHashed = EmptyBag
    /\ duplicates = <<>>
    /\ dpc = "done" /\ dpos = NoPos /\ handle = NoHandle /\ dret = NoResult
    /\ dres = <<>> /\ st = NoStats /\ errs = <<>> /\ ops = {}
    /\ extLock = NoId /\ written = {} /\ faults = 0
    /\ fs0 = fs /\ inodes0 = inodes /\ prevRun = NoRun

\* A directory layout: the inode number of every base path (0: absent).
Layouts == [BasePaths -> {0} \cup Inos]

IdOf(layout, p) == <<DevOfDir(DirOf(p)), layout[p]>>

UsedIds(layout) == {IdOf(layout, p) : p \in {q \in BasePaths : layout[q] # 0}}

LayoutFs(layout) ==
    [p \in AllPaths |->
        IF p \in BasePaths /\ layout[p] # 0 THEN FileEntry(IdOf(layout, p)) ELSE NoEntry]

LayoutInodes(layout, size, content, mtime) ==
    [id \in InodeIds |->
        IF id \in UsedIds(layout)
        THEN [size |-> size, content |-> content[id], mtime |-> mtime]
        ELSE NoInode]

\* Before any stage has run: the engine's variables at the start of runDedupe.
RunStart ==
    /\ stage = "scan"
    /\ files = <<>> /\ candidates = <<>> /\ vFailed = {} /\ vHashed = EmptyBag
    /\ duplicates = <<>>
    /\ dpc = "idle" /\ dpos = NoPos /\ handle = NoHandle /\ dret = NoResult
    /\ dres = <<>> /\ st = NoStats /\ errs = <<>> /\ ops = {}
    /\ extLock = NoId /\ written = {} /\ faults = 0

\* A filesystem with something left at a tmp path.
WithOrphanFs(f, orphan) ==
    IF orphan.at = <<>> THEN f ELSE [f EXCEPT ![orphan.at] = orphan.entry]

\* What an interrupted earlier run can have left behind in Spec: nothing, or a
\* symbolic link older than the cleanup's limit at the tmp path of one file.
StaleLinks ==
    {[at |-> <<>>, entry |-> NoEntry],
     [at |-> TmpOf(<<2, 2>>),
      entry |-> SymlinkEntry(<<1>>, Now - orphanedTmpMaxAge - 1)]}

\* Spec: a whole run of runDedupe on a filesystem no other process touches.
Init ==
    /\ JobIdle
    /\ AuxIdle
    /\ \E layout \in Layouts, size \in FileSizes, stale \in StaleLinks :
        /\ Cardinality(UsedIds(layout)) >= 2
        /\ \E content \in [UsedIds(layout) -> Contents(size)] :
            /\ fs = WithOrphanFs(LayoutFs(layout), stale)
            /\ inodes = LayoutInodes(layout, size, content, Now - 100)
    /\ cfg \in [paths : CliRoots, minSize : {1}, excludes : {{}},
                trustDeviceBoundaries : BOOLEAN, dryRun : BOOLEAN,
                symlinkFallback : BOOLEAN, peers : {FALSE}, workers : {1}]
    /\ RunStart
    /\ fs0 = fs /\ inodes0 = inodes /\ prevRun = NoRun

\* Ages, in seconds, of the files of SpecDedupe: around the cleanup's limit.
OrphanAges == {orphanedTmpMaxAge - 1, orphanedTmpMaxAge, orphanedTmpMaxAge + 1}

\* The layouts of SpecDedupe: every base path is a file; the two files of
\* directory 2 are two inodes or two names of one inode.
DedupeLayouts == {l \in Layouts : l[<<1, 1>>] = 1 /\ l[<<2, 1>>] = 1 /\ l[<<2, 2>>] # 0}

\* What a previous, interrupted run (or anything else) can have left at a tmp
\* path: nothing, a symbolic link, a file with an inode of its own, another
\* name of a scanned inode of that device, or something that is no file.
OrphanEntries(layout, tmp, mtime) ==
    {SymlinkEntry(<<1>>, mtime), OtherEntry(mtime),
     FileEntry(<<DevOfDir(DirOf(tmp)), OrphanIno>>)}
        \cup {FileEntry(id) : id \in {x \in UsedIds(layout) : x[1] = DevOfDir(DirOf(tmp))}}

Orphans(layout, mtime) ==
    {[at |-> <<>>, entry |-> NoEntry]}
        \cup UNION {{[at |-> TmpOf(p), entry |-> e] :
                        e \in OrphanEntries(layout, TmpOf(p), mtime)} : p \in BasePaths}

WithOrphanInodes(ino, orphan, mtime) ==
    IF orphan.entry.kind = "file" /\ orphan.entry.id[2] = OrphanIno
    THEN [ino EXCEPT ![orphan.entry.id] = [size |-> 1, content |-> <<9>>, mtime |-> mtime]]
    ELSE ino

AllSame(layout) == [id \in UsedIds(layout) |-> <<1>>]

\* The engine's variables when deduper.New(...) has been constructed from the
\* groups the first three phases return.
DeduperConstructed ==
    /\ files = ScannerRun
    /\ candidates = ScreenerRun(files, cfg.trustDeviceBoundaries)
    /\ vFailed = {} /\ vHashed = EmptyBag
    /\ duplicates = VerifierRun(candidates)
    /\ stage = "dedupe"
    /\ dpc = "idle" /\ dpos = NoPos /\ handle = NoHandle /\ dret = NoResult
    /\ dres = <<>> /\ st = NoStats /\ errs = <<>> /\ ops = {}
    /\ extLock = NoId /\ written = {} /\ faults = 0

\* SpecDedupe: Deduper.Run on byte-identical files, either with a tmp file
\* left behind at one target and no other process, or with other processes
\* writing to and locking the files.
DedupeInit ==
    /\ JobIdle
    /\ AuxIdle
    /\ \E layout \in DedupeLayouts, age \in OrphanAges, peers \in BOOLEAN :
        \E orphan \in Orphans(layout, Now - age) :
            /\ peers => orphan.at = <<>> /\ age = orphanedTmpMaxAge
            /\ fs = WithOrphanFs(LayoutFs(layout), orphan)
            /\ inodes = WithOrphanInodes(
                            LayoutInodes(layout, 1, AllSame(layout), Now - age),
                            orphan, Now - age)
            /\ cfg \in [paths : RootOrders, minSize : {1}, excludes : {{dupedogTmp}},
                        trustDeviceBoundaries : {TRUE}, dryRun : BOOLEAN,
                        symlinkFallback : BOOLEAN, peers : {peers}, workers : {1}]
    /\ DeduperConstructed
    /\ fs0 = fs /\ inodes0 = inodes /\ prevRun = NoRun

(***************************************************************************)
(* SpecJob: nextJob applied repeatedly to one candidate group.             *)
(***************************************************************************)
Around(n) == {s \in (n - SizeSlack)..(n + SizeSlack) : s >= 0}

ScheduleSizes ==
    Around(0) \cup Around(probeSize) \cup Around(2 * probeSize)
        \cup Around(2 * probeSize + chunkSize)

StubFile(p, s) ==
    [Path |-> p, Size |-> s, ModTime |-> 0, Dev |-> 1, Ino |-> p[2], Nlink |-> 1]

StubGroup(s) == << <<StubFile(<<1, 1>>, s)>>, <<StubFile(<<1, 2>>, s)>> >>

JobInit ==
    /\ jobGroup \in {StubGroup(s) : s \in ScheduleSizes}
    /\ jobPrev = NoJob
    /\ jobRanges = <<>>
    /\ jobDone = FALSE
    /\ SelectIdle
    /\ EngineIdle
    /\ AuxIdle

\* One call of nextJob with the previous job (processJob's use of it).
JobStep ==
    /\ ~jobDone
    /\ LET r == nextJob(jobPrev, jobGroup) IN
       IF r.done
       THEN /\ jobDone' = TRUE
            /\ UNCHANGED <<jobGroup, jobPrev, jobRanges>>
            /\ UNCHANGED <<selGroup, selPriority, selSource, auxVars>>
            /\ UNCHANGED <<fsVars, pipeVars, dedVars, envVars>>
       ELSE /\ jobPrev' = r.next
            /\ jobRanges' = Append(jobRanges, <<r.next.start, r.next.size>>)
            /\ UNCHANGED <<jobGroup, jobDone>>
            /\ UNCHANGED <<selGroup, selPriority, selSource, auxVars>>
            /\ UNCHANGED <<fsVars, pipeVars, dedVars, envVars>>

JobNext == JobStep

SpecJob == JobInit /\ [][JobNext]_vars

(***************************************************************************)
(* SpecSelect: selectSource as a function of a DuplicateGroup and a        *)
(* priority list.                                                          *)
(***************************************************************************)
MaxNlink == 3

\* A prefix no path of the model has.
Elsewhere == <<3>>

\* The priority prefixes: the directories, a prefix that only the second
\* file of directory 2 has, and Elsewhere.
Prefixes == {<<d>> : d \in Dirs} \cup {<<2, 2>>} \cup {Elsewhere}

PriorityLists ==
    {<<>>} \cup {<<a>> : a \in Prefixes} \cup {<<a, b>> : a, b \in Prefixes}

\* The record of path p in a layout whose inodes have the link counts nl.
SelFile(layout, nl, p) ==
    [Path |-> p, Size |-> 1, ModTime |-> 0, Dev |-> IdOf(layout, p)[1],
     Ino |-> IdOf(layout, p)[2], Nlink |-> nl[IdOf(layout, p)]]

\* The DuplicateGroup of a layout: one sibling group per inode.
SelGroupOf(layout, nl) ==
    NewDuplicateGroup(SetToSeq(
        {NewSiblingGroup(SetToSeq(
            {SelFile(layout, nl, p) :
                p \in {q \in BasePaths : layout[q] # 0 /\ IdOf(layout, q) = id}})) :
         id \in UsedIds(layout)}))

\* Link counts an inode can have: its names in the group, or more (names
\* outside the scanned roots).
LinkCounts(layout) ==
    {nl \in [UsedIds(layout) -> 1..MaxNlink] :
        \A id \in UsedIds(layout) :
            nl[id] >= Cardinality({q \in BasePaths : layout[q] # 0 /\ IdOf(layout, q) = id})}

SelectInit ==
    /\ jobGroup = <<>> /\ jobPrev = NoJob /\ jobRanges = <<>> /\ jobDone = TRUE
    /\ \E layout \in Layouts :
        /\ Cardinality(UsedIds(layout)) >= 2
        /\ \E nl \in LinkCounts(layout) : selGroup = SelGroupOf(layout, nl)
    /\ selPriority \in PriorityLists
    /\ selSource = NoFile
    /\ EngineIdle
    /\ AuxIdle

\* The call of selectSource in Deduper.Run.
Select ==
    /\ selGroup # <<>>
    /\ selSource = NoFile
    /\ selSource' = selectSource(selGroup, selPriority)
    /\ UNCHANGED <<jobGroup, jobPrev, jobRanges, jobDone, selGroup, selPriority, auxVars>>
    /\ UNCHANGED <<fsVars, pipeVars, dedVars, envVars>>

SelectNext == Select

SpecSelect == SelectInit /\ [][SelectNext]_vars

(***************************************************************************)
(* SpecScreen: Screener.Run as a function of the scanned records.          *)
(***************************************************************************)
\* The paths of the records: two in each directory.
ScreenPaths == {<<d, n>> : d \in Dirs, n \in FileNames}

\* The sizes of the records.
ScreenSizes == {1, 2}

\* Which inode each path is a name of (0: not scanned).
ScreenLayouts == [ScreenPaths -> {0} \cup Inos]

ScreenIdOf(layout, p) == <<DevOfDir(DirOf(p)), layout[p]>>

ScreenIds(layout) == {ScreenIdOf(layout, p) : p \in {q \in ScreenPaths : layout[q] # 0}}

\* The record the scanner makes of path p, the inodes having the sizes sz.
ScreenFile(layout, sz, p) ==
    [Path |-> p, Size |-> sz[ScreenIdOf(layout, p)], ModTime |-> 0,
     Dev |-> ScreenIdOf(layout, p)[1], Ino |-> ScreenIdOf(layout, p)[2],
     Nlink |-> Cardinality({q \in ScreenPaths :
                              layout[q] # 0 /\ ScreenIdOf(layout, q) = ScreenIdOf(layout, p)})]

\* The scanner's output for a layout, in the order the collector received it.
ScreenFiles(layout, sz) ==
    SetToSeq({ScreenFile(layout, sz, p) : p \in {q \in ScreenPaths : layout[q] # 0}})

ScreenInit ==
    /\ JobIdle
    /\ AuxIdle
    /\ fs = [p \in AllPaths |-> NoEntry]
    /\ inodes = [id \in InodeIds |-> NoInode]
    /\ \E layout \in ScreenLayouts :
        \E sz \in [ScreenIds(layout) -> ScreenSizes] : files = ScreenFiles(layout, sz)
    /\ cfg \in [paths : {<<>>}, minSize : {1}, excludes : {{}},
                trustDeviceBoundaries : BOOLEAN, dryRun : {FALSE},
                symlinkFallback : {FALSE}, peers : {FALSE}, workers : {1}]
    /\ stage = "screen"
    /\ candidates = <<>> /\ vFailed = {} /\ vHashed = EmptyBag /\ duplicates = <<>>
    /\ dpc = "idle" /\ dpos = NoPos /\ handle = NoHandle /\ dret = NoResult
    /\ dres = <<>> /\ st = NoStats /\ errs = <<>> /\ ops = {}
    /\ extLock = NoId /\ written = {} /\ faults = 0
    /\ fs0 = fs /\ inodes0 = inodes /\ prevRun = NoRun

ScreenNext == Screen

SpecScreen == ScreenInit /\ [][ScreenNext]_vars

(***************************************************************************)
(* SpecVerify: Verifier.Run on four files of two sizes, every read         *)
(* succeeding; the workers take the jobs in any order.                     *)
(***************************************************************************)
VerifyPaths == ScreenPaths

\* Path <<d, n>> is the only name of inode n of device d.
VerifyIdOf(p) == <<DevOfDir(DirOf(p)), p[2]>>

VerifyInit ==
    /\ JobIdle
    /\ AuxIdle
    /\ \E sz \in [VerifyPaths -> FileSizes] :
        \E content \in [VerifyPaths -> UNION {Contents(x) : x \in FileSizes}] :
            /\ \A p \in VerifyPaths : content[p] \in Contents(sz[p])
            /\ fs = [p \in VerifyPaths |-> FileEntry(VerifyIdOf(p))]
            /\ inodes = [id \in InodeIds |->
                            IF \E p \in VerifyPaths : VerifyIdOf(p) = id
                            THEN [size |-> sz[CHOOSE p \in VerifyPaths : VerifyIdOf(p) = id],
                                  content |-> content[CHOOSE p \in VerifyPaths :
                                                          VerifyIdOf(p) = id],
                                  mtime |-> Now - 100]
                            ELSE NoInode]
    /\ cfg \in [paths : {<< <<1>>, <<2>> >>}, minSize : {1}, excludes : {{}},
                trustDeviceBoundaries : BOOLEAN, dryRun : {TRUE},
                symlinkFallback : {FALSE}, peers : {FALSE},
                workers : 1..MaxWorkers]
    /\ files = ScannerRun
    /\ candidates = ScreenerRun(files, cfg.trustDeviceBoundaries)
    /\ stage = "queue"
    /\ vFailed = {} /\ vHashed = EmptyBag /\ duplicates = <<>>
    /\ dpc = "idle" /\ dpos = NoPos /\ handle = NoHandle /\ dret = NoResult
    /\ dres = <<>> /\ st = NoStats /\ errs = <<>> /\ ops = {}
    /\ extLock = NoId /\ written = {} /\ faults = MaxFaults
    /\ fs0 = fs /\ inodes0 = inodes /\ prevRun = NoRun

(***************************************************************************)
(* SpecCache: sessions of the hash cache on one cache path.                *)
(***************************************************************************)
MaxSessions == 3

MaxCalls == 2

\* The cache paths: "" disables the cache.
CachePaths == {"", "cache.db"}

CacheFile(path, size, ino, mtime) ==
    [Path |-> path, Size |-> size, ModTime |-> mtime, Dev |-> 1, Ino |-> ino, Nlink |-> 1]

CacheRec(fi, start, size) == [fi |-> fi, start |-> start, size |-> size]

\* The records the sessions store: a range of one file and of another.
StoredRecs ==
    {CacheRec(CacheFile(<<1, 1>>, 2, 1, 1), 0, 1),
     CacheRec(CacheFile(<<2, 1>>, 2, 2, 1), 0, 1)}

\* A record with one component of the key changed.
Variants(r) ==
    {[r EXCEPT !.fi.Path = <<1, 2>>], [r EXCEPT !.fi.Size = 3],
     [r EXCEPT !.fi.Ino = 3], [r EXCEPT !.fi.ModTime = 2],
     [r EXCEPT !.start = 1], [r EXCEPT !.size = 2]}

\* The records the sessions look up: the stored ones and the variants of
\* the first.
LookedRecs ==
    StoredRecs \cup Variants(CacheRec(CacheFile(<<1, 1>>, 2, 1, 1), 0, 1))

HashOf(b) == [i \in 1..hashSize |-> b]

\* The hashes handed to Store: two of 32 bytes and one of 31.
StoredHashes == {HashOf(1), HashOf(2), [i \in 1..(hashSize - 1) |-> 1]}

CacheInit ==
    /\ \E path \in CachePaths : cache = [NoCache EXCEPT !.path = path]
    /\ clog = NoCacheLog
    /\ WalkIdle
    /\ VerifierIdle
    /\ JobIdle
    /\ EngineIdle

\* cache.Open(path)
CacheOpen ==
    /\ ~cache.open
    /\ clog.session < MaxSessions
    /\ cache' =
        IF cache.path = ""
        THEN [cache EXCEPT !.open = TRUE, !.enabled = FALSE]
        ELSE [cache EXCEPT !.open = TRUE, !.enabled = TRUE,
                           !.readDB = cache.file,
                           !.newFile = IF cache.newFile.exists THEN cache.newFile
                                       ELSE EmptyDb]
    /\ clog' = [clog EXCEPT !.session = @ + 1, !.cur = NoSession,
                            !.prev = clog.cur,
                            !.prev2 = DOMAIN clog.prev.stored \cup clog.prev.hits]
    /\ UNCHANGED <<jobGroup, jobPrev, jobRanges, jobDone, selGroup, selPriority, selSource>>
    /\ UNCHANGED <<tree, sc, walkers, vr, vworkers>>
    /\ UNCHANGED <<fsVars, pipeVars, dedVars, envVars>>

\* Cache.Store(fi, start, size, hash): the entry is put in the write
\* database, over the entry the key has there.
CacheStore ==
    /\ cache.open
    /\ clog.cur.calls < MaxCalls
    /\ \E r \in StoredRecs, hash \in StoredHashes :
        /\ cache' = StoreDb(cache, r.fi, r.start, r.size, hash)
        /\ clog' = [clog EXCEPT
              !.cur.calls = @ + 1,
              !.cur.stored = IF Len(hash) = hashSize
                             THEN [x \in DOMAIN @ \cup {r} |-> IF x = r THEN hash ELSE @[x]]
                             ELSE @]
    /\ UNCHANGED <<jobGroup, jobPrev, jobRanges, jobDone, selGroup, selPriority, selSource>>
    /\ UNCHANGED <<tree, sc, walkers, vr, vworkers>>
    /\ UNCHANGED <<fsVars, pipeVars, dedVars, envVars>>

\* Cache.Lookup(fi, start, size): a hit is copied to the write database.
CacheLookup ==
    /\ cache.open
    /\ clog.cur.calls < MaxCalls
    /\ \E r \in LookedRecs :
        LET hash == LookupHash(cache, r.fi, r.start, r.size) IN
        /\ cache' = IF hash = <<>> THEN cache
                    ELSE CopyOnHit(cache, r.fi, r.start, r.size, hash)
        /\ clog' = [clog EXCEPT
              !.cur.calls = @ + 1,
              !.cur.hits = IF hash = <<>> THEN @ ELSE @ \cup {r},
              !.last = [session |-> clog.session, rec |-> r, hash |-> hash]]
    /\ UNCHANGED <<jobGroup, jobPrev, jobRanges, jobDone, selGroup, selPriority, selSource>>
    /\ UNCHANGED <<tree, sc, walkers, vr, vworkers>>
    /\ UNCHANGED <<fsVars, pipeVars, dedVars, envVars>>

\* Cache.Close(): both databases are closed and path.new is renamed to path.
CacheClose ==
    /\ cache.open
    /\ cache' =
        IF cache.newFile.exists
        THEN [cache EXCEPT !.open = FALSE, !.readDB = NoDb,
                           !.file = cache.newFile, !.newFile = NoDb]
        ELSE [cache EXCEPT !.open = FALSE, !.readDB = NoDb]
    /\ clog' = [clog EXCEPT !.cur.closed = TRUE]
    /\ UNCHANGED <<jobGroup, jobPrev, jobRanges, jobDone, selGroup, selPriority, selSource>>
    /\ UNCHANGED <<tree, sc, walkers, vr, vworkers>>
    /\ UNCHANGED <<fsVars, pipeVars, dedVars, envVars>>

CacheNext == CacheOpen \/ CacheStore \/ CacheLookup \/ CacheClose

SpecCache == CacheInit /\ [][CacheNext]_vars

(***************************************************************************)
(* Scanner.Run as tasks: the main task, one walker per directory, the      *)
(* collector, and the consumer of the error channel (drainErrors).  The    *)
(* walkers read the directory tree; a path of the tree is the sequence of  *)
(* its names.                                                              *)
(***************************************************************************)
\* Capacity of the Scanner's resultCh, scaled down.
ResultCap == 1

DirNode(err) == [NoNode EXCEPT !.kind = "dir", !.err = err]

FileNode(size, id) ==
    [NoNode EXCEPT !.kind = "file", !.size = size, !.id = id, !.mtime = 1, !.nlink = 1]

LinkNode == [NoNode EXCEPT !.kind = "symlink"]

OtherNode == [NoNode EXCEPT !.kind = "other"]

\* filepath.Join(dirPath, entry.Name())
JoinPath(dirPath, name) == Append(dirPath, name)

\* filepath.Base
Base(path) == <<path[Len(path)]>>

\* The parent directory of a path.
Parent(path) == SubSeq(path, 1, Len(path) - 1)

\* humanize.ParseBytes on the strings of the model (-1: error).
parseSize(s) == IF s = "1" THEN 1 ELSE IF s = "2" THEN 2 ELSE -1

\* The pattern filepath.Match reports as malformed ("[").
Malformed == <<-1>>

\* validateGlobPatterns: no pattern is malformed.
validateGlobPatterns(patterns) == Malformed \notin patterns

\* A shouldExclude that matches the pattern against the end of the path.
shouldExcludeAnywhere(excludes, path) ==
    \E pattern \in excludes : GlobMatch(pattern, path)

\* Scanner.shouldExclude: some pattern matches the base name of the path.
shouldExcludeBase(excludes, path) ==
    \E pattern \in excludes : GlobMatch(pattern, Base(path))

\* newFileInfo(fullPath, info)
walkFileInfo(p) ==
    [Path |-> p, Size |-> tree[p].size, ModTime |-> tree[p].mtime,
     Dev |-> tree[p].id[1], Ino |-> tree[p].id[2], Nlink |-> tree[p].nlink]

\* The entries dir.ReadDir returns.
Entries(dirPath) ==
    {p \in DOMAIN tree : p # <<>> /\ Parent(p) = dirPath /\ tree[p].kind # "none"}

\* A filesystem on which every path opens and reads as a directory.
ListErrnoNone(dirPath) == ""

\* The error of os.Open and ReadDir on a path: a missing path cannot be
\* opened, a directory may refuse to be opened (EACCES) or read (EIO), and
\* anything else opens but is not a directory.
ListErrno(dirPath) ==
    IF dirPath \notin DOMAIN tree \/ tree[dirPath].kind = "none" THEN "ENOENT"
    ELSE IF tree[dirPath].kind = "dir" THEN tree[dirPath].err
    ELSE "ENOTDIR"

\* listDirectory with processEntry: the regular files and the directories
\* that are not excluded; the entries read before a read error are returned
\* with the error.
listDirectory(excludes, dirPath) ==
    LET err == ListErrno(dirPath) IN
    IF err \in {"ENOENT", "EACCES", "ENOTDIR"}
    THEN [err |-> err, files |-> {}, subdirs |-> {}]
    ELSE [err |-> err,
          files |-> {walkFileInfo(p) : p \in {e \in Entries(dirPath) : tree[e].kind = "file"}},
          subdirs |-> {e \in Entries(dirPath) :
                          tree[e].kind = "dir" /\ ~shouldExcludeBase(excludes, e)}]

\* The filter of walkDirectory's loop over the files.
Matching(listed, minSize, excludes) ==
    {f \in listed : f.Size >= minSize /\ ~shouldExcludeBase(excludes, f.Path)}

\* A Semaphore that never makes Acquire wait.
AcquireAlways(held, n) == TRUE

\* Semaphore.Acquire can proceed: the channel of capacity n has room.
CanAcquire(held, n) == held < n

\* A walkDirectory that spawns its goroutines without counting them.
walkerWgForget(wg, n) == wg

\* s.walkerWg.Add(1) of walkDirectory, for n calls of it.
walkerWgAdd(wg, n) == wg + n

\* The goroutine walkDirectory spawns, before it has run.
NewWalker(dir) ==
    [dir |-> dir, pc |-> "acquire", pending |-> {}, subdirs |-> {}, err |-> "",
     acquired |-> 0, released |-> 0]

\* runDedupe up to Scanner.Run's first lines: the options are validated,
\* the Scanner is made and NewSemaphore(workers) makes its channel (a
\* negative capacity panics).
WalkStart ==
    /\ sc.pc = "start"
    /\ sc' = IF parseSize(sc.opts.minSizeStr) < 0 \/ ~validateGlobPatterns(sc.opts.excludes)
             THEN [sc EXCEPT !.pc = "fatal"]
             ELSE IF sc.opts.workers < 0
             THEN [sc EXCEPT !.pc = "panic", !.minSize = parseSize(sc.opts.minSizeStr)]
             ELSE [sc EXCEPT !.pc = "spawn", !.minSize = parseSize(sc.opts.minSizeStr),
                             !.collector = "running"]
    /\ UNCHANGED <<tree, walkers>>

\* Scanner.Run's loop over the roots: walkDirectory(filepath.Abs(p)) adds
\* to walkerWg and spawns the walker.
WalkRootSpawn ==
    /\ sc.pc = "spawn"
    /\ walkers' = Append(walkers, NewWalker(Abs(sc.opts.paths[sc.i])))
    /\ sc' = [sc EXCEPT !.wg = walkerWgAdd(@, 1), !.i = @ + 1,
                        !.pc = IF sc.i = Len(sc.opts.paths) THEN "wait" ELSE "spawn"]
    /\ UNCHANGED tree

\* walkerSem.Acquire(); peak records the most slots ever held at once.
WalkAcquire(w) ==
    /\ walkers[w].pc = "acquire"
    /\ CanAcquire(sc.sem, sc.opts.workers)
    /\ sc' = [sc EXCEPT !.sem = @ + 1,
                        !.peak = IF sc.sem + 1 > @ THEN sc.sem + 1 ELSE @]
    /\ walkers' = [walkers EXCEPT ![w].pc = "list", ![w].acquired = @ + 1]
    /\ UNCHANGED tree

\* listDirectory(dir): the directory is open from WalkAcquire to here.
WalkList(w) ==
    /\ walkers[w].pc = "list"
    /\ LET r == listDirectory(sc.opts.excludes, walkers[w].dir)
           m == Matching(r.files, sc.minSize, sc.opts.excludes)
       IN  walkers' = [walkers EXCEPT
              ![w].err = r.err,
              ![w].pending = IF r.err # "" THEN {} ELSE m,
              ![w].subdirs = IF r.err # "" THEN {} ELSE r.subdirs,
              ![w].pc = IF r.err # "" THEN "error"
                        ELSE IF m # {} THEN "files"
                        ELSE IF r.subdirs # {} THEN "spawn" ELSE "release"]
    /\ UNCHANGED <<tree, sc>>

\* s.sendError(err): a send on the error channel, which waits for room;
\* the walker then returns, which runs its deferred calls.
WalkSendError(w) ==
    /\ walkers[w].pc = "error"
    /\ Len(sc.errq) < ErrCap
    /\ sc' = [sc EXCEPT !.errq = Append(@, <<walkers[w].dir, walkers[w].err>>)]
    /\ walkers' = [walkers EXCEPT ![w].pc = "release"]
    /\ UNCHANGED tree

\* s.resultCh <- f for the next matching file (in directory order, which is
\* any order); the send waits for room.
WalkSend(w) ==
    /\ walkers[w].pc = "files"
    /\ sc.closed \/ Len(sc.ch) < ResultCap
    /\ \E f \in walkers[w].pending :
        /\ sc' = IF sc.closed THEN [sc EXCEPT !.sentClosed = TRUE]
                 ELSE [sc EXCEPT !.ch = Append(@, f), !.sent = Append(@, f)]
        /\ walkers' = [walkers EXCEPT
              ![w].pending = @ \ {f},
              ![w].pc = IF walkers[w].pending # {f} THEN "files"
                        ELSE IF walkers[w].subdirs # {} THEN "spawn" ELSE "release"]
    /\ UNCHANGED tree

\* One turn of the walker's loop over its subdirectories (in directory
\* order, which is any order): walkDirectory(sub) adds to walkerWg and
\* spawns the walker of the subdirectory.
WalkSpawn(w) ==
    /\ walkers[w].pc = "spawn"
    /\ \E sub \in walkers[w].subdirs :
        /\ walkers' = Append([walkers EXCEPT
                                ![w].subdirs = @ \ {sub},
                                ![w].pc = IF walkers[w].subdirs = {sub}
                                          THEN "release" ELSE "spawn"],
                             NewWalker(sub))
        /\ sc' = [sc EXCEPT !.wg = walkerWgAdd(@, 1)]
    /\ UNCHANGED tree

\* The walker returns: the deferred walkerSem.Release() runs first.
WalkRelease(w) ==
    /\ walkers[w].pc = "release"
    /\ walkers' = [walkers EXCEPT ![w].pc = "finish", ![w].released = @ + 1]
    /\ sc' = [sc EXCEPT !.sem = @ - 1]
    /\ UNCHANGED tree

\* The deferred walkerWg.Done() runs last and ends the walker.
WalkDone(w) ==
    /\ walkers[w].pc = "finish"
    /\ walkers' = [walkers EXCEPT ![w].pc = "done"]
    /\ sc' = [sc EXCEPT !.wg = @ - 1]
    /\ UNCHANGED tree

\* s.walkerWg.Wait(); close(s.resultCh)
WalkClose ==
    /\ sc.pc = "wait"
    /\ sc.wg = 0
    /\ sc' = [sc EXCEPT !.closed = TRUE, !.pc = "drain"]
    /\ UNCHANGED <<tree, walkers>>

\* The collector: for r := range s.resultCh { results = append(results, r) }
Collect ==
    /\ sc.collector = "running"
    /\ sc.ch # <<>>
    /\ sc' = [sc EXCEPT !.results = Append(@, Head(sc.ch)), !.ch = Tail(@)]
    /\ UNCHANGED <<tree, walkers>>

\* The collector's loop ends on the closed, drained channel.
CollectDone ==
    /\ sc.collector = "running"
    /\ sc.ch = <<>>
    /\ sc.closed
    /\ sc' = [sc EXCEPT !.collector = "done"]
    /\ UNCHANGED <<tree, walkers>>

\* collectorWg.Wait(); return results
WalkReturn ==
    /\ sc.pc = "drain"
    /\ sc.collector = "done"
    /\ sc' = [sc EXCEPT !.pc = "returned", !.out = sc.results]
    /\ UNCHANGED <<tree, walkers>>

\* drainErrors: one error is taken from the channel and printed.
DrainError ==
    /\ sc.errq # <<>>
    /\ sc' = [sc EXCEPT !.errq = Tail(@), !.reported = Append(@, Head(sc.errq))]
    /\ UNCHANGED <<tree, walkers>>

WalkStep ==
    /\ \/ WalkStart
       \/ WalkRootSpawn
       \/ \E w \in DOMAIN walkers : WalkAcquire(w)
       \/ \E w \in DOMAIN walkers : WalkList(w)
       \/ \E w \in DOMAIN walkers : WalkSendError(w)
       \/ \E w \in DOMAIN walkers : WalkSend(w)
       \/ \E w \in DOMAIN walkers : WalkSpawn(w)
       \/ \E w \in DOMAIN walkers : WalkRelease(w)
       \/ \E w \in DOMAIN walkers : WalkDone(w)
       \/ WalkClose
       \/ Collect
       \/ CollectDone
       \/ WalkReturn
       \/ DrainError
    /\ UNCHANGED <<jobGroup, jobPrev, jobRanges, jobDone, selGroup, selPriority, selSource>>
    /\ UNCHANGED <<cache, clog, vr, vworkers>>
    /\ UNCHANGED <<fsVars, pipeVars, dedVars, envVars>>

(***************************************************************************)
(* SpecWalk: runDedupe's first stage on a tree of two roots.               *)
(***************************************************************************)
\* What the second root can be: a directory, a directory that cannot be
\* opened or read, nothing, or a regular file.
RootKinds == {"dir", "EACCES", "EIO", "ENOENT", "file"}

\* The tree: root 1 holds two files, a directory, a symbolic link and a
\* socket; its directory 4 holds a file named as a file of the root; root 2
\* holds a file and a directory with a file.
TreeOf(kind2, err4) ==
    (<<1>> :> DirNode("")) @@
    (<<1, 1>> :> FileNode(1, <<1, 1>>)) @@
    (<<1, 2>> :> FileNode(2, <<1, 2>>)) @@
    (<<1, 4>> :> DirNode(err4)) @@
    (<<1, 4, 1>> :> FileNode(2, <<1, 3>>)) @@
    (<<1, 5>> :> LinkNode) @@
    (<<1, 5, 2>> :> FileNode(2, <<1, 4>>)) @@
    (<<1, 6>> :> OtherNode) @@
    (<<2>> :> IF kind2 = "dir" THEN DirNode("")
              ELSE IF kind2 \in {"EACCES", "EIO"} THEN DirNode(kind2)
              ELSE IF kind2 = "file" THEN FileNode(2, <<2, 9>>)
              ELSE NoNode) @@
    (<<2, 1>> :> IF kind2 \in {"dir", "EACCES", "EIO"} THEN FileNode(2, <<2, 1>>) ELSE NoNode) @@
    (<<2, 4>> :> IF kind2 \in {"dir", "EACCES", "EIO"} THEN DirNode("") ELSE NoNode) @@
    (<<2, 4, 2>> :> IF kind2 \in {"dir", "EACCES", "EIO"} THEN FileNode(2, <<2, 2>>) ELSE NoNode)

\* The exclude options: none, a directory's name, a file's name (also the
\* name of root 1), a pattern with a separator, a malformed pattern.
ExcludeSets == {{}, {<<4>>}, {<<1>>}, {<<4, 1>>}, {Malformed}}

MinSizeStrs == {"1", "2", "x"}

\* The roots on the command line: root 1 as an absolute or a relative path.
WalkRoots == {<< <<1>>, <<2>> >>, << <<Here, 1>>, <<2>> >>}

WalkInit ==
    /\ \E kind2 \in RootKinds, err4 \in {"", "EACCES"} : tree = TreeOf(kind2, err4)
    /\ \E paths \in WalkRoots, m \in MinSizeStrs, ex \in ExcludeSets,
          n \in {-1, 0} \cup (1..MaxWorkers) :
        sc = [NoScanner EXCEPT !.pc = "start",
                 !.opts = [paths |-> paths, minSizeStr |-> m, excludes |-> ex,
                           workers |-> n]]
    /\ walkers = <<>>
    /\ VerifierIdle
    /\ CacheIdle
    /\ JobIdle
    /\ EngineIdle

WalkNext == WalkStep

SpecWalk == WalkInit /\ [][WalkNext]_vars

\* The tasks of Scanner.Run and drainErrors are goroutines, which the
\* scheduler runs whenever they can take a step.
SpecWalkFair == SpecWalk /\ WF_vars(WalkNext)

(***************************************************************************)
(* Verifier.Run as tasks: the workers, the inner tasks of verifyFilesInJob *)
(* (one per sibling group of the job), the task that queues the initial    *)
(* jobs, the two tasks that close the channels, and the main task, which   *)
(* collects the results.  The error channel is runDedupe's (sc.errq).      *)
(***************************************************************************)
\* Capacities of jobCh and resultsCh, scaled down.
JobCap == 1

ResultsCap == 1

\* A worker waiting on jobCh.  results and jobs: what the loop of processJob
\* has still to route; sending: the group or job of the send it is in.
NewWorker ==
    [pc |-> "recv", job |-> NoJob, tasks |-> <<>>, results |-> {}, jobs |-> {},
     sending |-> <<>>]

\* An inner task of verifyFilesInJob, before it has run.
NewTask == [pc |-> "acquire", failed |-> FALSE, acquired |-> 0, released |-> 0]

\* A processJob that queues a follow-up job without counting it.
pendingForget(pending, n) == pending

\* v.pending.Add(n)
pendingAdd(pending, n) == pending + n

\* Verifier.Run up to the start of its tasks.  With no candidate group it
\* returns NewDuplicateGroups(nil) at once and nothing is made or started;
\* otherwise the channels and the semaphore are made, n workers started and
\* the initial jobs counted.
RunStarted(groups, n) ==
    IF Len(groups) = 0
    THEN [vr      |-> [NoVerifier EXCEPT !.pc = "returned",
                                         !.out = NewDuplicateGroups(<<>>)],
          workers |-> <<>>]
    ELSE [vr      |-> [NoVerifier EXCEPT !.pc = "run",
                                         !.pending = pendingAdd(0, Len(groups)),
                                         !.workerWg = n],
          workers |-> [k \in 1..n |-> NewWorker]]

\* runDedupe from the return of Scanner.Run to the tasks of Verifier.Run:
\* files is what the Scanner returned; no files or no candidates end the
\* run (vr.pc = "returned" with nothing started).  cache.Open("") cannot
\* fail: the cache is disabled.  Nothing of the Scanner, of the error
\* channel or of what drainErrors has printed is touched.
VerifierStart ==
    /\ sc.pc = "returned"
    /\ vr.pc = "idle"
    /\ files' = sc.out
    /\ LET groups == IF sc.out = <<>> THEN <<>>
                     ELSE ScreenerRun(sc.out, cfg.trustDeviceBoundaries)
       IN  /\ candidates' = groups
           /\ vr' = RunStarted(groups, sc.opts.workers).vr
           /\ vworkers' = RunStarted(groups, sc.opts.workers).workers
    /\ sc' = [sc EXCEPT !.pc = "screened"]
    /\ UNCHANGED <<jobGroup, jobPrev, jobRanges, jobDone, selGroup, selPriority, selSource,
                   cache, clog, tree, walkers>>
    /\ UNCHANGED <<fsVars, cfg, stage, vFailed, vHashed, duplicates, dedVars, envVars>>

\* Phase 3 of runDedupe after the atomic Scan and Screen: verifier.New(...)
\* and Verifier.Run up to the start of its tasks, or to its return when
\* there is no candidate group.
VerifyStart ==
    /\ stage = "queue"
    /\ vr' = RunStarted(candidates, cfg.workers).vr
    /\ vworkers' = RunStarted(candidates, cfg.workers).workers
    /\ stage' = "verify"
    /\ UNCHANGED <<jobGroup, jobPrev, jobRanges, jobDone, selGroup, selPriority, selSource,
                   cache, clog, tree, sc, walkers>>
    /\ UNCHANGED <<fsVars, cfg, files, candidates, vFailed, vHashed, duplicates,
                   dedVars, envVars>>

\* The task that queues the initial jobs: v.jobCh <- nextJob(nil, group).
InitialSend ==
    /\ vr.pc = "run"
    /\ vr.init <= Len(candidates)
    /\ vr.jobClosed \/ Len(vr.jobCh) < JobCap
    /\ vr' = IF vr.jobClosed
             THEN [vr EXCEPT !.sentClosed = TRUE, !.init = @ + 1]
             ELSE [vr EXCEPT !.jobCh = Append(@, nextJob(NoJob, candidates[vr.init]).next),
                             !.init = @ + 1]
    /\ UNCHANGED <<vworkers, sc, vHashed, vFailed, errs, faults>>

\* A worker receives a job: for j := range v.jobCh; verifyFilesInJob spawns
\* one inner task per sibling group.
WorkerRecv(k) ==
    /\ vworkers[k].pc = "recv"
    /\ vr.jobCh # <<>>
    /\ vworkers' = [vworkers EXCEPT
          ![k].pc = "hash",
          ![k].job = Head(vr.jobCh),
          ![k].tasks = [i \in 1..Len(Head(vr.jobCh).siblings) |-> NewTask]]
    /\ vr' = [vr EXCEPT !.jobCh = Tail(@)]
    /\ UNCHANGED <<sc, vHashed, vFailed, errs, faults>>

\* A worker's loop ends on the closed, empty jobCh: workerWg.Done().
WorkerExit(k) ==
    /\ vworkers[k].pc = "recv"
    /\ vr.jobCh = <<>>
    /\ vr.jobClosed
    /\ vworkers' = [vworkers EXCEPT ![k].pc = "exited"]
    /\ vr' = [vr EXCEPT !.workerWg = @ - 1]
    /\ UNCHANGED <<sc, vHashed, vFailed, errs, faults>>

\* v.workerSem.Acquire() of an inner task, which waits for a slot of the
\* semaphore NewSemaphore(v.workers) made.
TaskAcquire(k, i) ==
    /\ vworkers[k].pc = "hash"
    /\ vworkers[k].tasks[i].pc = "acquire"
    /\ CanAcquire(vr.sem, Len(vworkers))
    /\ vr' = [vr EXCEPT !.sem = @ + 1]
    /\ vworkers' = [vworkers EXCEPT ![k].tasks[i].pc = "open",
                                    ![k].tasks[i].acquired = @ + 1]
    /\ UNCHANGED <<sc, vHashed, vFailed, errs, faults>>

\* The inner task looks the range up (the cache is disabled: a miss) and
\* calls hashRange on the representative, whose file is open from
\* TaskAcquire to here.  The read succeeds, and the task sends its result
\* and returns through the deferred Release, or fails (the path is gone, or
\* an injected I/O error).
TaskHash(k, i) ==
    /\ vworkers[k].pc = "hash"
    /\ vworkers[k].tasks[i].pc = "open"
    /\ LET j   == vworkers[k].job
           rep == Representative(j.siblings[i]).Path
       IN  /\ vHashed' = vHashed (+) SetToBag({<<rep, j.start, j.size>>})
           /\ \E ioError \in {FALSE} \cup (IF faults < MaxFaults THEN {TRUE} ELSE {}) :
                /\ faults' = IF ioError THEN faults + 1 ELSE faults
                /\ IF hashRange(rep, j.start, j.size, ioError).err = ""
                   THEN /\ vworkers' = [vworkers EXCEPT ![k].tasks[i].pc = "done",
                                                        ![k].tasks[i].released = @ + 1]
                        /\ vr' = [vr EXCEPT !.sem = @ - 1]
                        /\ UNCHANGED vFailed
                   ELSE /\ vworkers' = [vworkers EXCEPT ![k].tasks[i].pc = "error",
                                                        ![k].tasks[i].failed = TRUE]
                        /\ vFailed' = vFailed \cup {rep}
                        /\ UNCHANGED vr
    /\ UNCHANGED <<sc, errs>>

\* v.sendError(err) of an inner task whose read failed, a send that waits
\* for room with the semaphore held, and the return through the deferred
\* Release.
TaskSendError(k, i) ==
    /\ vworkers[k].pc = "hash"
    /\ vworkers[k].tasks[i].pc = "error"
    /\ Len(sc.errq) < ErrCap
    /\ LET j   == vworkers[k].job
           rep == Representative(j.siblings[i]).Path
           e   == <<rep, hashRange(rep, j.start, j.size, TRUE).err>>
       IN  /\ sc' = [sc EXCEPT !.errq = Append(@, e)]
           /\ errs' = Append(errs, e)
    /\ vworkers' = [vworkers EXCEPT ![k].tasks[i].pc = "done",
                                    ![k].tasks[i].released = @ + 1]
    /\ vr' = [vr EXCEPT !.sem = @ - 1]
    /\ UNCHANGED <<vHashed, vFailed, faults>>

\* wg.Wait() of verifyFilesInJob and the grouping by hash: what the loop of
\* processJob has to route.
WorkerGroup(k) ==
    /\ vworkers[k].pc = "hash"
    /\ \A i \in DOMAIN vworkers[k].tasks : vworkers[k].tasks[i].pc = "done"
    /\ LET j == vworkers[k].job
           failing == {Representative(j.siblings[i]).Path :
                          i \in {x \in DOMAIN vworkers[k].tasks : vworkers[k].tasks[x].failed}}
       IN  \E r \in {processJob(j, failing)} :
              vworkers' = [vworkers EXCEPT ![k].pc = "route", ![k].tasks = <<>>,
                                           ![k].results = r.results, ![k].jobs = r.jobs]
    /\ UNCHANGED <<vr, sc, vHashed, vFailed, errs, faults>>

\* The loop of processJob comes to its next hash group of two or more (the
\* map is ranged over in any order): a finished group is about to be sent
\* on resultsCh; for any other, v.pending.Add(1) and the next job is about
\* to be sent on jobCh.
WorkerRoute(k) ==
    /\ vworkers[k].pc = "route"
    /\ \/ \E g \in vworkers[k].results :
            /\ vworkers' = [vworkers EXCEPT ![k].pc = "result", ![k].sending = g,
                                            ![k].results = @ \ {g}]
            /\ UNCHANGED vr
       \/ \E j \in vworkers[k].jobs :
            /\ vworkers' = [vworkers EXCEPT ![k].pc = "job", ![k].sending = j,
                                            ![k].jobs = @ \ {j}]
            /\ vr' = [vr EXCEPT !.pending = pendingAdd(@, 1)]
    /\ UNCHANGED <<sc, vHashed, vFailed, errs, faults>>

\* v.resultsCh <- types.NewDuplicateGroup(...), which waits for room.
WorkerSendResult(k) ==
    /\ vworkers[k].pc = "result"
    /\ vr.resClosed \/ Len(vr.resCh) < ResultsCap
    /\ vr' = IF vr.resClosed THEN [vr EXCEPT !.sentClosed = TRUE]
             ELSE [vr EXCEPT !.resCh = Append(@, vworkers[k].sending)]
    /\ vworkers' = [vworkers EXCEPT ![k].pc = "route", ![k].sending = <<>>]
    /\ UNCHANGED <<sc, vHashed, vFailed, errs, faults>>

\* v.jobCh <- next, which waits for room.
WorkerSendJob(k) ==
    /\ vworkers[k].pc = "job"
    /\ vr.jobClosed \/ Len(vr.jobCh) < JobCap
    /\ vr' = IF vr.jobClosed THEN [vr EXCEPT !.sentClosed = TRUE]
             ELSE [vr EXCEPT !.jobCh = Append(@, vworkers[k].sending)]
    /\ vworkers' = [vworkers EXCEPT ![k].pc = "route", ![k].sending = <<>>]
    /\ UNCHANGED <<sc, vHashed, vFailed, errs, faults>>

\* The end of processJob: the deferred v.pending.Done().
WorkerJobDone(k) ==
    /\ vworkers[k].pc = "route"
    /\ vworkers[k].results = {}
    /\ vworkers[k].jobs = {}
    /\ vworkers' = [vworkers EXCEPT ![k].pc = "recv", ![k].job = NoJob]
    /\ vr' = [vr EXCEPT !.pending = @ - 1]
    /\ UNCHANGED <<sc, vHashed, vFailed, errs, faults>>

\* v.pending.Wait(); close(v.jobCh)
CloseJobs ==
    /\ vr.pc = "run"
    /\ vr.pending = 0
    /\ ~vr.jobClosed
    /\ vr' = [vr EXCEPT !.jobClosed = TRUE]
    /\ UNCHANGED <<vworkers, sc, vHashed, vFailed, errs, faults>>

\* v.workerWg.Wait(); close(v.resultsCh)
CloseResults ==
    /\ vr.pc = "run"
    /\ vr.workerWg = 0
    /\ ~vr.resClosed
    /\ vr' = [vr EXCEPT !.resClosed = TRUE]
    /\ UNCHANGED <<vworkers, sc, vHashed, vFailed, errs, faults>>

\* The main task: for group := range v.resultsCh
CollectResult ==
    /\ vr.pc = "run"
    /\ vr.resCh # <<>>
    /\ vr' = [vr EXCEPT !.dups = Append(@, Head(vr.resCh)), !.resCh = Tail(@)]
    /\ UNCHANGED <<vworkers, sc, vHashed, vFailed, errs, faults>>

\* The loop ends on the closed, empty resultsCh; Run returns the sorted
\* groups.
VerifierReturn ==
    /\ vr.pc = "run"
    /\ vr.resCh = <<>>
    /\ vr.resClosed
    /\ vr' = [vr EXCEPT !.pc = "returned", !.out = NewDuplicateGroups(vr.dups)]
    /\ UNCHANGED <<vworkers, sc, vHashed, vFailed, errs, faults>>

\* A step of a task of Verifier.Run.
VerifierStep ==
    /\ \/ InitialSend
       \/ \E k \in DOMAIN vworkers : WorkerRecv(k)
       \/ \E k \in DOMAIN vworkers : WorkerExit(k)
       \/ \E k \in DOMAIN vworkers : \E i \in DOMAIN vworkers[k].tasks : TaskAcquire(k, i)
       \/ \E k \in DOMAIN vworkers : \E i \in DOMAIN vworkers[k].tasks : TaskHash(k, i)
       \/ \E k \in DOMAIN vworkers : \E i \in DOMAIN vworkers[k].tasks : TaskSendError(k, i)
       \/ \E k \in DOMAIN vworkers : WorkerGroup(k)
       \/ \E k \in DOMAIN vworkers : WorkerRoute(k)
       \/ \E k \in DOMAIN vworkers : WorkerSendResult(k)
       \/ \E k \in DOMAIN vworkers : WorkerSendJob(k)
       \/ \E k \in DOMAIN vworkers : WorkerJobDone(k)
       \/ CloseJobs
       \/ CloseResults
       \/ CollectResult
       \/ VerifierReturn
    /\ UNCHANGED <<jobGroup, jobPrev, jobRanges, jobDone, selGroup, selPriority, selSource,
                   cache, clog, tree, walkers>>
    /\ UNCHANGED <<fsVars, cfg, stage, files, candidates, duplicates>>
    /\ UNCHANGED <<dpc, dpos, handle, dret, dres, st, ops>>
    /\ UNCHANGED <<extLock, written, fs0, inodes0, prevRun>>

\* duplicates := verifier.New(...).Run(): runDedupe has the groups Run
\* returned and goes on to Phase 4; the Verifier is gone.
VerifyReturn ==
    /\ stage = "verify"
    /\ vr.pc = "returned"
    /\ duplicates' = vr.out
    /\ stage' = "dedupe"
    /\ vr' = NoVerifier
    /\ vworkers' = <<>>
    /\ UNCHANGED <<jobGroup, jobPrev, jobRanges, jobDone, selGroup, selPriority, selSource,
                   cache, clog, tree, sc, walkers>>
    /\ UNCHANGED <<fsVars, cfg, files, candidates, vFailed, vHashed, dedVars, envVars>>

\* drainErrors, the consumer of runDedupe's error channel.
drainErrors ==
    /\ DrainError
    /\ UNCHANGED <<jobGroup, jobPrev, jobRanges, jobDone, selGroup, selPriority, selSource,
                   cache, clog, vr, vworkers>>
    /\ UNCHANGED <<fsVars, pipeVars, dedVars, envVars>>

\* No read fails in SpecVerify, so that the error channel stays empty.
VerifyNext == VerifyStart \/ VerifierStep \/ VerifyReturn

SpecVerify == VerifyInit /\ [][VerifyNext]_vars

(***************************************************************************)
(* Spec: the whole pipeline.                                               *)
(***************************************************************************)
DedupeStep ==
    \/ DStart \/ DOpen \/ DFlock \/ DStat
    \/ HLink \/ TmpCleanup \/ HRename \/ RemoveTmp
    \/ SStat \/ SSymlink \/ SRename
    \/ DClose \/ DReturn

Next ==
    \/ Scan \/ Screen \/ VerifyStart \/ VerifierStep \/ VerifyReturn
    \/ DedupeStep
    \/ drainErrors

Spec == Init /\ [][Next]_vars

(***************************************************************************)
(* SpecTwice: runDedupe run twice in a row with the same options, on a     *)
(* filesystem no other process touches.                                    *)
(***************************************************************************)
\* The first run has returned; runDedupe is started again, with a new error
\* channel.
Rerun ==
    /\ stage = "done"
    /\ prevRun.n = 0
    /\ prevRun' = [n |-> 1, fs |-> fs, duplicates |-> duplicates]
    /\ stage' = "scan"
    /\ files' = <<>> /\ candidates' = <<>> /\ vFailed' = {}
    /\ vHashed' = EmptyBag /\ duplicates' = <<>>
    /\ dpc' = "idle" /\ dpos' = NoPos /\ handle' = NoHandle /\ dret' = NoResult
    /\ dres' = <<>> /\ st' = NoStats /\ errs' = <<>> /\ ops' = {}
    /\ fs0' = fs /\ inodes0' = inodes
    /\ sc' = NoScanner
    /\ UNCHANGED <<jobGroup, jobPrev, jobRanges, jobDone, selGroup, selPriority, selSource,
                   cache, clog, tree, walkers, vr, vworkers>>
    /\ UNCHANGED <<fsVars, cfg, extLock, written, faults>>

TwiceNext == Next \/ Rerun

SpecTwice == Init /\ [][TwiceNext]_vars

(***************************************************************************)
(* SpecDedupe: the Deduper among other processes.                          *)
(***************************************************************************)
DedupeNext == DedupeStep \/ ExtWrite \/ ExtLock \/ ExtUnlock \/ drainErrors

SpecDedupe == DedupeInit /\ [][DedupeNext]_vars

(***************************************************************************)
(* SpecTasks: runDedupe's scan, screen and verify stages as tasks, on four *)
(* files in two root directories, one of them with a subdirectory.         *)
(***************************************************************************)
\* The scanner's view of the filesystem: the two root directories with the
\* regular files of fs and, in root 2, a directory that cannot be opened.
FlatTree ==
    [p \in {<<d>> : d \in Dirs} \cup {<<2, 3>>} \cup VerifyPaths |->
        IF Len(p) = 1 THEN DirNode("")
        ELSE IF p = <<2, 3>> THEN DirNode("EACCES")
        ELSE IF fs[p].kind = "file"
        THEN [NoNode EXCEPT !.kind = "file", !.size = inodes[fs[p].id].size,
                            !.id = fs[p].id, !.mtime = inodes[fs[p].id].mtime,
                            !.nlink = Nlink(fs[p].id)]
        ELSE NoNode]

\* The sizes of the four files: the files of root 1 are of one size.
TaskSizes == {sz \in [VerifyPaths -> FileSizes] : sz[<<1, 1>>] = sz[<<1, 2>>]}

\* The contents: the first of the size, but for the last file, which has
\* any.
TaskContents(sz) ==
    {c \in [VerifyPaths -> UNION {Contents(x) : x \in FileSizes}] :
        /\ \A p \in VerifyPaths : c[p] \in Contents(sz[p])
        /\ \A p \in VerifyPaths \ {<<2, 2>>} :
              c[p] = IF sz[p] <= probeSize THEN <<1>> ELSE <<1, 1>>}

\* The command lines: the two roots in either order.
TaskRoots == {<< <<1>>, <<2>> >>}

TasksInit ==
    /\ JobIdle
    /\ CacheIdle
    /\ \E sz \in TaskSizes : \E content \in TaskContents(sz) :
            /\ fs = [p \in VerifyPaths |-> FileEntry(VerifyIdOf(p))]
            /\ inodes = [id \in InodeIds |->
                            IF \E p \in VerifyPaths : VerifyIdOf(p) = id
                            THEN [size |-> sz[CHOOSE p \in VerifyPaths : VerifyIdOf(p) = id],
                                  content |-> content[CHOOSE p \in VerifyPaths :
                                                          VerifyIdOf(p) = id],
                                  mtime |-> Now - 100]
                            ELSE NoInode]
    /\ cfg \in [paths : TaskRoots, minSize : {1}, excludes : {{}},
                trustDeviceBoundaries : {TRUE}, dryRun : {TRUE},
                symlinkFallback : {FALSE}, peers : {FALSE},
                workers : 1..MaxWorkers]
    /\ tree = FlatTree
    /\ sc = [NoScanner EXCEPT !.pc = "start",
                !.opts = [paths |-> cfg.paths, minSizeStr |-> "1", excludes |-> {},
                          workers |-> cfg.workers]]
    /\ walkers = <<>>
    /\ VerifierIdle
    /\ stage = "tasks"
    /\ files = <<>> /\ candidates = <<>>
    /\ vFailed = {} /\ vHashed = EmptyBag /\ duplicates = <<>>
    /\ dpc = "idle" /\ dpos = NoPos /\ handle = NoHandle /\ dret = NoResult
    /\ dres = <<>> /\ st = NoStats /\ errs = <<>> /\ ops = {}
    /\ extLock = NoId /\ written = {} /\ faults = 0
    /\ fs0 = fs /\ inodes0 = inodes /\ prevRun = NoRun

TasksNext == WalkStep \/ VerifierStart \/ VerifierStep

SpecTasks == TasksInit /\ [][TasksNext]_vars

(***************************************************************************)
(* SpecOverlap: a whole run of runDedupe with a root directory given       *)
(* twice on the command line, so that the Scanner returns its files twice. *)
(***************************************************************************)
OverlapRoots ==
    {<< <<1>>, <<2>>, <<2>> >>, << <<2>>, <<2>>, <<1>> >>, << <<2>>, <<1>>, <<2>> >>}

OverlapInit ==
    /\ JobIdle
    /\ AuxIdle
    /\ \E layout \in Layouts, size \in FileSizes, stale \in StaleLinks :
        /\ Cardinality(UsedIds(layout)) >= 2
        /\ \E content \in [UsedIds(layout) -> Contents(size)] :
            /\ fs = WithOrphanFs(LayoutFs(layout), stale)
            /\ inodes = LayoutInodes(layout, size, content, Now - 100)
    /\ cfg \in [paths : OverlapRoots, minSize : {1}, excludes : {{}},
                trustDeviceBoundaries : {TRUE}, dryRun : BOOLEAN,
                symlinkFallback : BOOLEAN, peers : {FALSE}, workers : {1}]
    /\ RunStart
    /\ fs0 = fs /\ inodes0 = inodes /\ prevRun = NoRun

SpecOverlap == OverlapInit /\ [][Next]_vars

(***************************************************************************)
(* SpecRoots: the roots of the command line as the Scanner and as          *)
(* selectSource see them.  Here a path is a string, a sequence of          *)
(* characters with Slash as the separator, so that one directory name can  *)
(* begin with another: the directories are /1, /12 and /2, each with one   *)
(* file named 5, all three files byte-identical.  No root holds "..".      *)
(* A character is its ASCII code, so that PathLess orders the strings as   *)
(* Go orders them, byte by byte: "." < "/" < "1" < "2" < "5".              *)
(***************************************************************************)
Slash == <<47>>

DotName == <<46>>

\* The working directory of the run: /
Cwd == Slash

\* The parts of a string between its slashes.
RECURSIVE Components(_)
Components(s) ==
    IF s = <<>> THEN << <<>> >>
    ELSE LET rest == Components(Tail(s)) IN
         IF <<Head(s)>> = Slash THEN << <<>> >> \o rest
         ELSE << <<Head(s)>> \o rest[1] >> \o Tail(rest)

\* filepath.Clean of an absolute path without "..": empty and "." parts
\* are dropped, the others joined by single slashes.
RECURSIVE CleanParts(_)
CleanParts(cs) ==
    IF cs = <<>> THEN <<>>
    ELSE IF Head(cs) = <<>> \/ Head(cs) = DotName THEN CleanParts(Tail(cs))
    ELSE Slash \o Head(cs) \o CleanParts(Tail(cs))

Clean(s) == IF CleanParts(Components(s)) = <<>> THEN Slash ELSE CleanParts(Components(s))

\* filepath.Abs: an absolute path is cleaned, any other is joined to the
\* working directory first.
filepathAbs(p) ==
    IF p # <<>> /\ <<p[1]>> = Slash THEN Clean(p) ELSE Clean(Cwd \o Slash \o p)

\* filepath.Join(dirPath, entry.Name())
filepathJoin(dirPath, name) == Clean(dirPath \o Slash \o name)

\* The directories on disk and the file each of them holds.
RootDirs == {Slash \o <<49>>, Slash \o <<49, 50>>, Slash \o <<50>>}

RootFileName == <<53>>

\* The inode number of the file of a directory.
RootIno(d) == IF d = Slash \o <<49>> THEN 1 ELSE IF d = Slash \o <<49, 50>> THEN 2 ELSE 3

\* The records walkDirectory(dir) returns: the file of the directory, under
\* the path the walker was given.
ScanUnder(dir) ==
    IF dir \in RootDirs
    THEN {[Path |-> filepathJoin(dir, RootFileName), Size |-> 1, ModTime |-> 0, Dev |-> 1,
           Ino |-> RootIno(dir), Nlink |-> 1]}
    ELSE {}

\* The ways a directory is spelled on the command line: as it is, with a
\* trailing slash, relative to the working directory, and with a leading dot.
Spellings(d) == {d, d \o Slash, Tail(d), DotName \o d}

\* The command lines: one root, or two roots of different directories.
RawRootLists ==
    {<<r>> : r \in UNION {Spellings(d) : d \in RootDirs}}
        \cup UNION {{<<r1, r2>> : r1 \in Spellings(d1), r2 \in Spellings(d2)} :
                        <<d1, d2>> \in {x \in RootDirs \X RootDirs : x[1] # x[2]}}

RootsInit ==
    /\ jobGroup = <<>> /\ jobPrev = NoJob /\ jobRanges = <<>> /\ jobDone = TRUE
    /\ selGroup = <<>>
    /\ selPriority \in RawRootLists
    /\ selSource = NoFile
    /\ EngineIdle
    /\ AuxIdle

\* runDedupe up to deduper.New: the Scanner walks filepath.Abs of every
\* root; the files found, when there are two or more, are one DuplicateGroup
\* of as many sibling groups; the roots as given are the priority list.
RootsScan ==
    /\ selGroup = <<>>
    /\ selSource = NoFile
    /\ LET found == UNION {ScanUnder(filepathAbs(selPriority[k])) : k \in 1..Len(selPriority)}
       IN  /\ Cardinality(found) >= 2
           /\ selGroup' = NewDuplicateGroup(SetToSeq({NewSiblingGroup(<<f>>) : f \in found}))
    /\ UNCHANGED <<jobGroup, jobPrev, jobRanges, jobDone, selPriority, selSource, auxVars>>
    /\ UNCHANGED <<fsVars, pipeVars, dedVars, envVars>>

RootsNext == RootsScan \/ Select

SpecRoots == RootsInit /\ [][RootsNext]_vars

(***************************************************************************)
(* SpecDryReal: a dry run of runDedupe followed by a real run with the     *)
(* same options on the same filesystem, the roots given as absolute paths. *)
(***************************************************************************)
DryRealInit == Init /\ cfg.dryRun /\ cfg.paths \in RootOrders

\* The dry run has returned; its report is kept and runDedupe is started
\* again without --dry-run.
RealRun ==
    /\ stage = "done"
    /\ prevRun.n = 0
    /\ cfg.dryRun
    /\ prevRun' = [n |-> 1, fs |-> fs, duplicates |-> duplicates, dres |-> dres, st |-> st]
    /\ cfg' = [cfg EXCEPT !.dryRun = FALSE]
    /\ stage' = "scan"
    /\ files' = <<>> /\ candidates' = <<>> /\ vFailed' = {}
    /\ vHashed' = EmptyBag /\ duplicates' = <<>>
    /\ dpc' = "idle" /\ dpos' = NoPos /\ handle' = NoHandle /\ dret' = NoResult
    /\ dres' = <<>> /\ st' = NoStats /\ errs' = <<>> /\ ops' = {}
    /\ fs0' = fs /\ inodes0' = inodes
    /\ sc' = NoScanner
    /\ UNCHANGED <<jobGroup, jobPrev, jobRanges, jobDone, selGroup, selPriority, selSource,
                   cache, clog, tree, walkers, vr, vworkers>>
    /\ UNCHANGED <<fsVars, extLock, written, faults>>

DryRealNext == Next \/ RealRun

SpecDryReal == DryRealInit /\ [][DryRealNext]_vars

(***************************************************************************)
(* Properties of the schedule.                                             *)
(***************************************************************************)
RECURSIVE SumSizes(_)
SumSizes(rs) == IF rs = <<>> THEN 0 ELSE rs[1][2] + SumSizes(Tail(rs))

RangesDisjoint(rs) ==
    \A i, j \in 1..Len(rs) :
        i < j => \/ rs[i][1] + rs[i][2] <= rs[j][1]
                 \/ rs[j][1] + rs[j][2] <= rs[i][1]

RangesWithin(rs, fileSize) ==
    \A i \in 1..Len(rs) :
        rs[i][1] >= 0 /\ rs[i][2] >= 0 /\ rs[i][1] + rs[i][2] <= fileSize

\* C6: for every file size S >= 0 the ranges nextJob produces are pairwise
\* non-overlapping and lie in [0, S); the cumulative totalBytes is the sum of
\* the range sizes; done is reported exactly when totalBytes equals S, and
\* then the disjoint ranges add up to S bytes, so their union is [0, S).
C6_ScheduleCoversOnce ==
    LET S == jobGroup[1][1].Size IN
    /\ RangesDisjoint(jobRanges)
    /\ RangesWithin(jobRanges, S)
    /\ jobPrev # NoJob => jobPrev.totalBytes = SumSizes(jobRanges)
    /\ jobPrev # NoJob => (nextJob(jobPrev, jobGroup).done <=> jobPrev.totalBytes = S)
    /\ jobDone => (jobPrev # NoJob /\ SumSizes(jobRanges) = S)

\* A file above 2*probeSize + chunkSize: head, tail and two chunks, then done.
C6_Witness ==
    /\ jobDone
    /\ Len(jobRanges) = 4
    /\ jobGroup[1][1].Size > 2 * probeSize + chunkSize

(***************************************************************************)
(* Properties of the Deduper.                                              *)
(***************************************************************************)
\* The results of the dedupeFile calls so far, the call in progress included.
Results ==
    IF dpc \in {"idle", "open", "done"} THEN dres ELSE Append(dres, dret)

\* The engine's filesystem mutations of the k-th dedupeFile call.
OpsOf(k) == {o \in ops : o[1] = k}

\* The entry a committed replacement leaves at the target.
NewLink(r) ==
    IF r.Action = "symlink"
    THEN SymlinkEntry(Rel(DirOf(r.Target), r.Source), Now)
    ELSE fs[r.Source]

\* The paths Run calls dedupeFile for: every file of every sibling group
\* that does not contain the source, in every group of two or more.
TargetsOf(g) ==
    IF Len(g) < 2 THEN {}
    ELSE UNION {{g[s][t].Path : t \in 1..Len(g[s])} :
                    s \in {x \in 1..Len(g) : ~containsFile(g[x], selectSource(g, cfg.paths))}}

ExpectedTargets == UNION {TargetsOf(duplicates[i]) : i \in 1..Len(duplicates)}

\* A skipped target does not end the run: when Run is over, dedupeFile has
\* been called for every target.
AllAttempted ==
    dpc = "done" => {dres[k].Target : k \in 1..Len(dres)} = ExpectedTargets

\* C1: in every state of a CreateHardlink / CreateSymlink call (link placed at
\* the tmp path, orphan cleaned up and link retried, renamed, tmp removed
\* after a failed rename) and after it, the target name exists; it is the
\* new link when the rename succeeded and the original file otherwise.
C1_TargetNeverAbsent ==
    /\ \A p \in BasePaths : Exists(p)
    /\ \A k \in 1..Len(Results) :
        LET r == Results[k] IN
        IF r.committed THEN fs[r.Target] = NewLink(r)
        ELSE fs[r.Target] = fs0[r.Target]

\* A call that cleaned up an orphan, linked, failed to rename and removed its
\* tmp file: the target is still the original file.
C1_Witness ==
    /\ dpc = "ret"
    /\ {<<Call, "remove", Tmp>>, <<Call, "link", Tmp>>} \subseteq ops
    /\ fs0[Tmp].kind # "none"
    /\ dret.Err = "EIO"
    /\ ~Exists(Tmp)
    /\ fs[Target.Path] = fs0[Target.Path]

\* C4: a replacement is never committed over a file that was written to
\* after the scan, wherever in dedupeFile the write falls.
C4_ModifiedTargetNotReplaced ==
    \A k \in 1..Len(Results) : Results[k].committed => ~Results[k].overwrote

\* C5: a call whose f.Stat mtime differs from the scanned mtime returns the
\* skip "file modified since scan", issues no filesystem mutation, leaves
\* target and tmp path as they were, and Run goes on to the other targets.
C5_ModifiedSinceScanSkipped ==
    /\ \A k \in 1..Len(Results) :
        LET r == Results[k] IN
        (r.statMtime # -1 /\ r.statMtime # r.scanMtime) =>
            /\ r.Action = "skipped"
            /\ r.Err = "file modified since scan"
            /\ OpsOf(k) = {}
            /\ fs[r.Target] = fs0[r.Target]
            /\ fs[TmpOf(r.Target)] = fs0[TmpOf(r.Target)]
            /\ k <= Len(dres) => \E e \in 1..Len(errs) : errs[e] = <<r.Target, r.Err>>
    /\ AllAttempted

\* A target skipped for its mtime, and a later target replaced.
C5_Witness ==
    \E k, m \in 1..Len(dres) :
        /\ k < m
        /\ dres[k].statMtime # dres[k].scanMtime
        /\ dres[k].Err = "file modified since scan"
        /\ dres[m].committed

\* C9: when another process holds the lock, flock returns at once (the step
\* is enabled whatever the peer does); the call returns the skip "file in
\* use" before reading the mtime, mutates nothing, the error is sent to the
\* error sink, and Run goes on to the other targets.
C9_LockedTargetSkipped ==
    /\ dpc = "flock" => ENABLED DFlock
    /\ \A k \in 1..Len(Results) :
        LET r == Results[k] IN
        r.lockBusy =>
            /\ r.Action = "skipped"
            /\ r.Err = "file in use"
            /\ r.statMtime = -1
            /\ OpsOf(k) = {}
            /\ fs[r.Target] = fs0[r.Target]
            /\ k <= Len(dres) => \E e \in 1..Len(errs) : errs[e] = <<r.Target, r.Err>>
    /\ dpc = "done" => {dres[k].Target : k \in 1..Len(dres)} = ExpectedTargets

\* A target skipped because it was locked, and a later target replaced.
C9_Witness ==
    \E k, m \in 1..Len(dres) :
        /\ k < m
        /\ dres[k].lockBusy
        /\ dres[k].Err = "file in use"
        /\ dres[m].committed

\* C10: with dry-run on, the engine issues no link, symlink, rename or
\* remove; every name is the entry it was (same inode, same link count, no
\* tmp file), and an inode differs from before only if a peer wrote to it.
C10_DryRunMutatesNothing ==
    cfg.dryRun =>
        /\ ops = {}
        /\ fs = fs0
        /\ \A id \in DOMAIN inodes :
            inodes[id] = inodes0[id] \/ \E w \in written : w.id = id

\* A finished dry run that reported a replacement.
C10_Witness ==
    /\ cfg.dryRun
    /\ dpc = "done"
    /\ \E k \in 1..Len(dres) : dres[k].Action = "hardlink" /\ dres[k].BytesSaved > 0

\* Whether tryCleanupOrphanedTmp's conditions hold of the tmp file of the
\* call in progress: at least orphanedTmpMaxAge old, and a symbolic link or a
\* regular file with more than one name.
Removable ==
    /\ LstatMtime(Tmp) <= Now - orphanedTmpMaxAge
    /\ \/ fs[Tmp].kind = "symlink"
       \/ (fs[Tmp].kind = "file" /\ Nlink(fs[Tmp].id) > 1)

\* C8: the cleanup of an existing tmp file removes it when it is at least a
\* minute old and a symbolic link or a regular file with link count above 1;
\* in every other case nothing in the filesystem changes, the tmp file stays
\* and the call returns a skip error; the target is unchanged either way.
C8_CleanupOnlyWhenOrphan ==
    [][(dpc \in {"cleanup", "scleanup"} /\ dpc' # dpc) =>
          /\ Exists(Tmp)
          /\ fs'[Target.Path] = fs[Target.Path]
          /\ IF Removable
             THEN fs'[Tmp] = NoEntry
             ELSE /\ fs' = fs
                  /\ ops' = ops
                  /\ dpc' = "ret"
                  /\ dret'.Action = "skipped"
                  /\ dret'.Err = "tmp file exists and cannot be cleaned"]_vars

\* An old regular file with a single name at the tmp path: left in place.
C8_Witness ==
    /\ dpc = "ret"
    /\ dret.Err = "tmp file exists and cannot be cleaned"
    /\ fs[Tmp].kind = "file"
    /\ Nlink(fs[Tmp].id) = 1
    /\ LstatMtime(Tmp) < Now - orphanedTmpMaxAge
    /\ fs[Target.Path] = fs0[Target.Path]

(***************************************************************************)
(* Properties of the pipeline.                                             *)
(***************************************************************************)
\* The content a path had before the run.
ContentBefore(p) ==
    IF fs0[p].kind = "file" THEN inodes0[fs0[p].id].content ELSE <<-1>>

\* C2: when the run is over, every scanned path that existed before it still
\* exists and resolves to the content it had before the run.
C2_ContentPreserved ==
    stage = "done" =>
        \A p \in BasePaths :
            fs0[p].kind = "file" => Exists(p) /\ ContentOf(p) = ContentBefore(p)

\* The paths of a duplicate group.
PathsOf(g) == {AllFiles(g)[m].Path : m \in 1..Len(AllFiles(g))}

\* C3: in the groups Verifier.Run returns, all paths of all sibling groups
\* of a duplicate group have the same content.
C3_GroupsByteIdentical ==
    (stage = "dedupe" /\ dpc = "idle") =>
        \A i \in 1..Len(duplicates) :
            \A p, q \in PathsOf(duplicates[i]) : ContentOf(p) = ContentOf(q)

\* The representatives of the sibling groups of a sequence of groups.
RepsOf(groups) ==
    UNION {{Representative(groups[i][s]).Path : s \in 1..Len(groups[i])} :
              i \in 1..Len(groups)}

\* The follow-up jobs not yet received by a worker: on jobCh, in the send a
\* worker waits in, or still to be routed by its processJob.
QueuedJobs ==
    {vr.jobCh[i] : i \in 1..Len(vr.jobCh)}
        \cup UNION {vworkers[k].jobs : k \in DOMAIN vworkers}
        \cup {vworkers[k].sending : k \in {w \in DOMAIN vworkers : vworkers[w].pc = "job"}}

\* The inner task that failed to hash p is in sendError, waiting for room on
\* the error channel.
SendingErrorFor(p) ==
    \E k \in DOMAIN vworkers : \E i \in DOMAIN vworkers[k].tasks :
        /\ vworkers[k].tasks[i].pc = "error"
        /\ Representative(vworkers[k].job.siblings[i]).Path = p

\* C7: a sibling group whose representative failed to hash is reported on the
\* error sink, is in no later job and in no duplicate group; no duplicate
\* group has fewer than two sibling groups; and the sibling groups of a
\* candidate group that did not fail and have the same content are returned
\* together.
C7_FailedGroupDropped ==
    /\ \A p \in vFailed :
        \/ \E e \in 1..Len(errs) : errs[e] = <<p, "EIO">>
        \/ SendingErrorFor(p)
    /\ \A j \in QueuedJobs :
        \A s \in 1..Len(j.siblings) : Representative(j.siblings[s]).Path \notin vFailed
    /\ RepsOf(duplicates) \cap vFailed = {}
    /\ RepsOf(vr.resCh \o vr.dups) \cap vFailed = {}
    /\ \A i \in 1..Len(duplicates) : Len(duplicates[i]) >= 2
    /\ (stage = "dedupe" /\ dpc = "idle") =>
        \A c \in 1..Len(candidates) :
            \A a, b \in 1..Len(candidates[c]) :
                LET pa == Representative(candidates[c][a]).Path
                    pb == Representative(candidates[c][b]).Path
                IN  (a # b /\ {pa, pb} \cap vFailed = {} /\ ContentOf(pa) = ContentOf(pb))
                        => \E i \in 1..Len(duplicates) : {pa, pb} \subseteq RepsOf(<<duplicates[i]>>)

\* One of three sibling groups failed; the other two are returned.
C7_Witness ==
    /\ stage = "dedupe" /\ dpc = "idle"
    /\ vFailed # {}
    /\ \E c \in 1..Len(candidates) :
        /\ Len(candidates[c]) = 3
        /\ RepsOf(<<candidates[c]>>) \cap vFailed # {}
        /\ \E i \in 1..Len(duplicates) : RepsOf(<<duplicates[i]>>) \subseteq RepsOf(<<candidates[c]>>)

(***************************************************************************)
(* Properties of the reporting of Run.                                     *)
(***************************************************************************)
\* The calls Run counted as done: those that returned no error.
CountedCalls == {k \in 1..Len(dres) : dres[k].Err = ""}

RECURSIVE SumSaved(_)
SumSaved(rs) == IF rs = <<>> THEN 0 ELSE rs[1].BytesSaved + SumSaved(Tail(rs))

\* What Run reports, in terms of the calls: processedFiles counts the calls
\* without error, savedBytes adds up their BytesSaved, every call with an
\* error is on the error sink and saved nothing.
ReportMatchesCalls ==
    /\ st.processedFiles = Cardinality(CountedCalls)
    /\ st.savedBytes = SumSaved(dres)
    /\ \A k \in 1..Len(dres) :
        dres[k].Err # "" =>
            /\ dres[k].Action = "skipped"
            /\ dres[k].BytesSaved = 0
            /\ \E e \in 1..Len(errs) : errs[e] = <<dres[k].Target, dres[k].Err>>

\* C11 as stated: a target is counted in processedFiles and savedBytes only
\* if the rename over it was committed; a skipped or failed target is on the
\* error sink and adds nothing.
C11_CountedOnlyIfCommitted ==
    /\ ReportMatchesCalls
    /\ \A k \in CountedCalls : dres[k].committed

\* C11, amended: the same in a run that is not a dry run (a dry run counts
\* the replacements it would have made).
C11_CountedOnlyIfCommittedUnlessDryRun ==
    /\ ReportMatchesCalls
    /\ ~cfg.dryRun => \A k \in CountedCalls : dres[k].committed
    /\ \A k \in CountedCalls : dres[k].committed \/ (cfg.dryRun /\ dres[k].statMtime = dres[k].scanMtime)

\* A finished real run with one target replaced and one skipped.
C11_Witness ==
    /\ ~cfg.dryRun
    /\ dpc = "done"
    /\ st.processedFiles = 1
    /\ st.savedBytes = 1
    /\ \E k, m \in 1..Len(dres) : dres[k].committed /\ dres[m].Err # ""

(***************************************************************************)
(* Properties of the choice of source and targets.                         *)
(***************************************************************************)
\* The paths of the sibling group of g that holds the record src.
OwnPaths(g, src) ==
    UNION {{g[s][t].Path : t \in 1..Len(g[s])} :
              s \in {x \in 1..Len(g) : \E t \in 1..Len(g[x]) : g[x][t] = src}}

\* The paths of the sibling groups of the chosen sources, and all the others,
\* over the duplicate groups of two or more sibling groups.
SourceSidePaths ==
    UNION {OwnPaths(duplicates[i], selectSource(duplicates[i], cfg.paths)) :
              i \in {x \in 1..Len(duplicates) : Len(duplicates[x]) >= 2}}

OtherSidePaths ==
    UNION {PathsOf(duplicates[i]) :
              i \in {x \in 1..Len(duplicates) : Len(duplicates[x]) >= 2}} \ SourceSidePaths

\* C12: no path of the source's sibling group is ever passed to dedupeFile,
\* the names of that group stay what they were, every call is for a path of
\* another sibling group, no path is attempted twice, and when Run is over
\* every such path has been attempted.
C12_SourceGroupSkipped ==
    stage \in {"dedupe", "done"} =>
        /\ \A k \in 1..Len(Results) :
            /\ Results[k].Target \in OtherSidePaths
            /\ Results[k].Target \notin SourceSidePaths
            /\ Results[k].Source \in SourceSidePaths
        /\ \A p \in SourceSidePaths : fs[p] = fs0[p]
        /\ \A k, m \in 1..Len(Results) : k # m => Results[k].Target # Results[m].Target
        /\ (dpc = "done" /\ duplicates # <<>>) =>
              {dres[k].Target : k \in 1..Len(dres)} = OtherSidePaths

\* A finished run whose source has a sibling (two names of one inode) and
\* whose other file was attempted.
C12_Witness ==
    /\ dpc = "done"
    /\ Len(dres) = 1
    /\ Cardinality(SourceSidePaths) = 2
    /\ dres[1].committed

(***************************************************************************)
(* Properties of selectSource.                                             *)
(***************************************************************************)
SelFiles == {AllFiles(selGroup)[m] : m \in 1..Len(AllFiles(selGroup))}

Matches(f) == \E k \in 1..Len(selPriority) : HasPrefix(f.Path, selPriority[k])

\* Sibling group s is the best by link count: no other has a greater link
\* count, and none with the same link count has a smaller first path.
BestGroup(s) ==
    \A o \in 1..Len(selGroup) :
        o # s => \/ selGroup[o][1].Nlink < selGroup[s][1].Nlink
                 \/ /\ selGroup[o][1].Nlink = selGroup[s][1].Nlink
                    /\ PathLess(selGroup[s][1].Path, selGroup[o][1].Path)

\* C13: the source is a file of the group; if some path of the group has a
\* priority prefix the source has one, whatever the link counts; otherwise
\* the source is the first file of the sibling group with the greatest link
\* count, the one with the smallest first path among equals.
C13_SelectPrecedence ==
    selSource # NoFile =>
        /\ selSource \in SelFiles
        /\ (\E f \in SelFiles : Matches(f)) => Matches(selSource)
        /\ ~(\E f \in SelFiles : Matches(f)) =>
              \E s \in 1..Len(selGroup) : BestGroup(s) /\ selSource = selGroup[s][1]

\* A selection by the tie-break: no path has a priority prefix, two sibling
\* groups share the greatest link count and a third has a smaller one.
C13_Witness ==
    /\ selSource # NoFile
    /\ selPriority # <<>>
    /\ ~(\E f \in SelFiles : Matches(f))
    /\ Len(selGroup) = 3
    /\ \E a, b, c \in 1..3 :
        /\ a < b
        /\ selGroup[a][1].Nlink = selGroup[b][1].Nlink
        /\ selGroup[c][1].Nlink < selGroup[a][1].Nlink
        /\ selSource = selGroup[a][1]

(***************************************************************************)
(* Properties of the path priority of a whole run.                         *)
(***************************************************************************)
\* The roots, in command-line order, that hold a path of group g.
RootsOf(g, roots) ==
    {k \in 1..Len(roots) : \E p \in PathsOf(g) : HasPrefix(p, Abs(roots[k]))}

\* The directory the source of g is expected in: the earliest root that holds
\* a path of g.
EarliestRoot(g, roots) ==
    Abs(roots[CHOOSE k \in RootsOf(g, roots) : \A m \in RootsOf(g, roots) : k <= m])

\* The name p now leads to the file at src: another name of its inode, or a
\* symbolic link that resolves to src.
LinksTo(p, src) ==
    \/ fs[p].kind = "file" /\ fs[src].kind = "file" /\ fs[p].id = fs[src].id
    \/ fs[p].kind = "symlink" /\ JoinRel(DirOf(p), fs[p].target) = src

\* C14: for a DuplicateGroup with paths under both roots the source is under
\* the root given first, with the roots swapped it is under the other one,
\* and every target that was replaced is a link to the source.
C14_EarliestRootKept ==
    stage \in {"dedupe", "done"} =>
        /\ \A i \in 1..Len(duplicates) :
              Cardinality(RootsOf(duplicates[i], cfg.paths)) = 2 =>
                  /\ HasPrefix(selectSource(duplicates[i], cfg.paths).Path,
                               EarliestRoot(duplicates[i], cfg.paths))
                  /\ HasPrefix(selectSource(duplicates[i],
                                   <<cfg.paths[2], cfg.paths[1]>>).Path,
                               EarliestRoot(duplicates[i],
                                   <<cfg.paths[2], cfg.paths[1]>>))
        /\ \A k \in 1..Len(dres) :
              dres[k].committed => LinksTo(dres[k].Target, dres[k].Source)

(***************************************************************************)
(* Properties of the handling of link errors.                              *)
(***************************************************************************)
CrossDevice == "cannot hardlink across device boundaries"

\* The target of result r is what it was when the run started.
TargetUnchanged(r) == fs[r.Target] = fs0[r.Target]

SkippedUnchanged(r) ==
    /\ r.Action = "skipped" /\ r.Err # "" /\ ~r.committed
    /\ TargetUnchanged(r)

\* The target of r was replaced by one rename with a symbolic link that
\* stores the relative path from the target's directory to the source.
SymlinkInPlace(k) ==
    /\ dres[k].Action = "symlink" /\ dres[k].Err = "" /\ dres[k].committed
    /\ fs[dres[k].Target].kind = "symlink"
    /\ fs[dres[k].Target].target = Rel(DirOf(dres[k].Target), dres[k].Source)
    /\ JoinRel(DirOf(dres[k].Target), fs[dres[k].Target].target) = dres[k].Source
    /\ {o \in OpsOf(k) : o[3] = dres[k].Target} = {<<k, "rename", dres[k].Target>>}

\* dedupeFile calls of the run that are not cross-device behave as C15 says.
OtherLinkErrors ==
    \A k \in 1..Len(dres) :
        /\ (dres[k].linkErr = "EXDEV" /\ ~cfg.symlinkFallback) =>
              SkippedUnchanged(dres[k]) /\ dres[k].Err = CrossDevice
        /\ dres[k].linkErr \notin {"", "EXDEV"} =>
              SkippedUnchanged(dres[k]) /\ dres[k].Err = dres[k].linkErr
        /\ dres[k].Action = "symlink" => dres[k].linkErr = "EXDEV" /\ cfg.symlinkFallback

\* C15 as stated: a cross-device link error with the fallback enabled always
\* ends with the symbolic link in place; with the fallback disabled, or on any
\* other link error, the target is skipped and unchanged.
C15_CrossDeviceFallback ==
    /\ OtherLinkErrors
    /\ \A k \in 1..Len(dres) :
          (dres[k].linkErr = "EXDEV" /\ cfg.symlinkFallback) => SymlinkInPlace(k)

\* C15, amended: with the fallback enabled the symbolic link is attempted;
\* the call ends with the link in place, or as a skip with CreateSymlink's
\* error and the target unchanged.
C15_CrossDeviceFallbackAttempted ==
    /\ OtherLinkErrors
    /\ \A k \in 1..Len(dres) :
          (dres[k].linkErr = "EXDEV" /\ cfg.symlinkFallback) =>
              \/ SymlinkInPlace(k)
              \/ SkippedUnchanged(dres[k]) /\ dres[k].Err # CrossDevice

\* A run with the fallback in which one cross-device target became a symbolic
\* link and another was skipped by CreateSymlink.
C15_Witness ==
    /\ cfg.symlinkFallback
    /\ \E k, m \in 1..Len(dres) :
        /\ dres[k].linkErr = "EXDEV" /\ SymlinkInPlace(k)
        /\ dres[m].linkErr = "EXDEV" /\ dres[m].Action = "skipped"

(***************************************************************************)
(* Properties of the Screener.                                             *)
(***************************************************************************)
\* The identity key of a record under the run's option.
IdentityKey(f) == IF cfg.trustDeviceBoundaries THEN <<f.Dev, f.Ino>> ELSE <<f.Ino>>

Records == {files[i] : i \in 1..Len(files)}

\* A size bucket is kept when it holds two or more identity keys.
KeptSizes ==
    {sz \in {f.Size : f \in Records} :
        Cardinality({IdentityKey(f) : f \in {r \in Records : r.Size = sz}}) >= 2}

\* The places <<group, sibling group, index>> of record f in the candidates.
PlacesOf(f) ==
    {<<g, s, t>> \in (1..Len(candidates)) \X (1..Len(files)) \X (1..Len(files)) :
        /\ s <= Len(candidates[g])
        /\ t <= Len(candidates[g][s])
        /\ candidates[g][s][t] = f}

Together(f1, f2) ==
    \E a \in PlacesOf(f1), b \in PlacesOf(f2) : a[1] = b[1] /\ a[2] = b[2]

\* C16: once the Screener has run, every candidate group has two or more
\* sibling groups, records of different sibling groups of a group have
\* different identity keys, and all records of a group have one size; two
\* records of kept buckets are in one sibling group exactly if their sizes and
\* identity keys are equal; every record of a kept bucket is at exactly one
\* place, and no other record is anywhere.
C16_ScreenerGroups ==
    stage # "screen" =>
        /\ \A g \in 1..Len(candidates) :
            /\ Len(candidates[g]) >= 2
            /\ \A s1, s2 \in 1..Len(candidates[g]) :
                  \A t1 \in 1..Len(candidates[g][s1]), t2 \in 1..Len(candidates[g][s2]) :
                      /\ candidates[g][s1][t1].Size = candidates[g][s2][t2].Size
                      /\ s1 # s2 => IdentityKey(candidates[g][s1][t1])
                                        # IdentityKey(candidates[g][s2][t2])
        /\ \A f1, f2 \in {r \in Records : r.Size \in KeptSizes} :
              Together(f1, f2) <=>
                  (f1.Size = f2.Size /\ IdentityKey(f1) = IdentityKey(f2))
        /\ \A f \in Records :
              Cardinality(PlacesOf(f)) = IF f.Size \in KeptSizes THEN 1 ELSE 0
        /\ \A g \in 1..Len(candidates) : \A s \in 1..Len(candidates[g]) :
              \A t \in 1..Len(candidates[g][s]) : candidates[g][s][t] \in Records

\* Without trust_device_boundaries: a kept bucket in which two records of
\* different devices and one inode number are siblings, and a dropped bucket of
\* another size.
C16_Witness ==
    /\ stage # "screen"
    /\ ~cfg.trustDeviceBoundaries
    /\ Len(candidates) = 1
    /\ \E f1, f2 \in Records : f1.Dev # f2.Dev /\ Together(f1, f2)
    /\ \E f \in Records : f.Size \notin KeptSizes

(***************************************************************************)
(* Properties of the hashing of representatives.                           *)
(***************************************************************************)
\* path is the lexicographically first path of a sibling group of the
\* candidates, and <<start, size>> a range of the schedule of its size.
FirstOfSiblingGroup(path, start, size) ==
    \E g \in 1..Len(candidates) : \E s \in 1..Len(candidates[g]) :
        /\ \E t \in 1..Len(candidates[g][s]) : candidates[g][s][t].Path = path
        /\ \A t \in 1..Len(candidates[g][s]) :
              candidates[g][s][t].Path = path \/ PathLess(path, candidates[g][s][t].Path)
        /\ \E k \in 1..Len(ScheduleFrom(NoJob, candidates[g])) :
              ScheduleFrom(NoJob, candidates[g])[k] = <<start, size>>

\* The hash computations made on the paths of group g.
CallsOn(g) == {c \in BagToSet(vHashed) : c[1] \in PathsOf(g)}

\* C17: every hash computation is on the lexicographically first path of a
\* sibling group, for a range of the schedule, and no path is hashed twice
\* for a range; for every emitted duplicate group the hash computations on
\* its paths number its sibling groups times the ranges of the schedule.
C17_OneHashPerSiblingGroup ==
    /\ \A c \in BagToSet(vHashed) :
        /\ CopiesIn(c, vHashed) = 1
        /\ FirstOfSiblingGroup(c[1], c[2], c[3])
    /\ \A i \in 1..Len(duplicates) :
          Cardinality(CallsOn(duplicates[i]))
              = Len(duplicates[i]) * Len(ScheduleFrom(NoJob, duplicates[i]))

\* A duplicate group of two sibling groups, one of them of two paths, of files
\* of two ranges: four hash computations for three paths.
C17_Witness ==
    /\ stage = "dedupe"
    /\ Len(duplicates) = 1
    /\ Len(duplicates[1]) = 2
    /\ Cardinality(PathsOf(duplicates[1])) = 3
    /\ Cardinality(CallsOn(duplicates[1])) = 4

(***************************************************************************)
(* Properties of the progressive elimination.                              *)
(***************************************************************************)
\* The content, one symbol per range of the schedule, of the representative
\* of sibling group s of candidate group g.
RepContent(g, s) == ContentBefore(Representative(candidates[g][s]).Path)

\* Sibling group s of candidate group g has the content of no other sibling
\* group of g.
UniqueByContent(g, s) ==
    \A o \in 1..Len(candidates[g]) : o # s => RepContent(g, o) # RepContent(g, s)

\* s differs from every other sibling group of g within the first k ranges.
ToldApartBy(g, s, k) ==
    \A o \in 1..Len(candidates[g]) :
        o # s => SubSeq(RepContent(g, o), 1, k) # SubSeq(RepContent(g, s), 1, k)

\* The range of the schedule at which the content of s eliminates it.
EliminationRange(g, s) ==
    CHOOSE k \in 1..Len(RepContent(g, s)) :
        /\ ToldApartBy(g, s, k)
        /\ \A m \in 1..(k - 1) : ~ToldApartBy(g, s, m)

\* The ranges hashed of path p.
HashedRanges(p) == {<<c[2], c[3]>> : c \in {x \in BagToSet(vHashed) : x[1] = p}}

\* The first n ranges of a schedule, and their totalBytes.
FirstRanges(sched, n) == {sched[i] : i \in 1..n}

TotalBytes(sched, n) == SumSizes(SubSeq(sched, 1, n))

\* The ranges hashed of a sibling group that is unique by content are the
\* first n of the schedule, n no later than its elimination range: the bytes
\* hashed are at most the totalBytes of that range.
HashedUpToElimination(g, s, n) ==
    /\ HashedRanges(Representative(candidates[g][s]).Path)
          = FirstRanges(ScheduleFrom(NoJob, candidates[g]), n)
    /\ n <= EliminationRange(g, s)
    /\ TotalBytes(ScheduleFrom(NoJob, candidates[g]), n)
          <= TotalBytes(ScheduleFrom(NoJob, candidates[g]), EliminationRange(g, s))

\* C18 as stated: ... and the bytes hashed are never the whole file.
C18_EliminatedNeverWhole ==
    \A g \in 1..Len(candidates) : \A s \in 1..Len(candidates[g]) :
        UniqueByContent(g, s) =>
            \E n \in 0..Len(ScheduleFrom(NoJob, candidates[g])) :
                /\ HashedUpToElimination(g, s, n)
                /\ TotalBytes(ScheduleFrom(NoJob, candidates[g]), n)
                      < candidates[g][1][1].Size

\* C18, amended: ... and the bytes hashed are the whole file only if the file
\* was eliminated at the last range of its schedule.
C18_EliminatedWholeOnlyAtLastRange ==
    \A g \in 1..Len(candidates) : \A s \in 1..Len(candidates[g]) :
        UniqueByContent(g, s) =>
            \E n \in 0..Len(ScheduleFrom(NoJob, candidates[g])) :
                /\ HashedUpToElimination(g, s, n)
                /\ \/ TotalBytes(ScheduleFrom(NoJob, candidates[g]), n)
                          < candidates[g][1][1].Size
                   \/ /\ n = Len(ScheduleFrom(NoJob, candidates[g]))
                      /\ n = EliminationRange(g, s)

\* A file of two ranges that differs from two duplicates in its head: after
\* the verification one range of it was hashed.
C18_Witness ==
    /\ stage = "dedupe"
    /\ Len(duplicates) = 1
    /\ \E g \in 1..Len(candidates) : \E s \in 1..Len(candidates[g]) :
        /\ UniqueByContent(g, s)
        /\ Len(ScheduleFrom(NoJob, candidates[g])) = 2
        /\ Cardinality(HashedRanges(Representative(candidates[g][s]).Path)) = 1

(***************************************************************************)
(* Properties of the order of the Verifier's work.                         *)
(***************************************************************************)
\* C19: when no read fails, whatever the order in which the workers took the
\* jobs and the results arrived, Verifier.Run returns the one value that
\* processing the jobs in a fixed order returns, and that value is sorted by
\* first path.
C19_VerifierDeterministic ==
    (stage = "dedupe" /\ dpc = "idle" /\ vFailed = {}) =>
        /\ duplicates = VerifierRun(candidates)
        /\ \A i, k \in 1..Len(duplicates) :
              i < k => PathLess(FirstFirstPath(duplicates[i]), FirstFirstPath(duplicates[k]))

\* Two duplicate groups of files of two ranges: their last jobs were queued
\* together and ran in either order.
C19_Witness ==
    /\ stage = "dedupe"
    /\ Len(duplicates) = 2
    /\ \A i \in 1..2 : Len(ScheduleFrom(NoJob, duplicates[i])) = 2
    /\ Len(candidates) = 1

(***************************************************************************)
(* Properties of a second run.                                             *)
(***************************************************************************)
\* All through the second run the filesystem is what the first run left, no
\* target is replaced and no name is made or removed, and every duplicate
\* group the second run finds holds only paths that one duplicate group of
\* the first run held.
SecondRunIdle ==
        /\ fs = prevRun.fs
        /\ inodes = inodes0
        /\ ops = {}
        /\ \A k \in 1..Len(Results) : ~Results[k].committed
        /\ stage \in {"dedupe", "done"} =>
              \A i \in 1..Len(duplicates) :
                  \E j \in 1..Len(prevRun.duplicates) :
                      PathsOf(duplicates[i]) \subseteq PathsOf(prevRun.duplicates[j])

WasLinkOf(p, src) ==
    /\ fs0[p].kind = "file"
    /\ fs0[src].kind = "file"
    /\ fs0[p].id = fs0[src].id

DiffersInKey(r, e) ==
    \/ r.fi.Path # e.fi.Path
    \/ r.fi.Size # e.fi.Size
    \/ r.fi.Ino # e.fi.Ino
    \/ r.fi.ModTime # e.fi.ModTime
    \/ r.start # e.start
    \/ r.size # e.size

\* The records a session left in the database it wrote.
Kept(session) == DOMAIN session.stored \cup session.hits

\* The last call was a Lookup in a session that follows a closed one on an
\* enabled cache.
LookedUpInNextSession ==
    /\ cache.enabled
    /\ cache.open
    /\ clog.session >= 2
    /\ clog.prev.closed
    /\ clog.last.session = clog.session

\* C21: a 32-byte hash stored for a record and range in a session that is
\* then closed is what Lookup of the same record and range returns in the
\* next session on the same cache path; a Lookup of a record that differs
\* from every entry of the previous session in one of path, size, inode,
\* mtime, range start or range size is a miss.
C21_RoundTripAndMiss ==
    LookedUpInNextSession =>
        /\ clog.last.rec \in DOMAIN clog.prev.stored
            => clog.last.hash = clog.prev.stored[clog.last.rec]
        /\ (\A e \in Kept(clog.prev) : DiffersInKey(clog.last.rec, e))
            => clog.last.hash = <<>>

\* C22: in the third of three consecutive sessions on a cache path, Lookup
\* misses on an entry the first session left and the second did not look
\* up, and hits on an entry the second session looked up with a hit.
C22_SelfCleaning ==
    (LookedUpInNextSession /\ clog.session >= 3) =>
        /\ (clog.last.rec \in clog.prev2 /\ clog.last.rec \notin clog.prev.hits)
            => clog.last.hash = <<>>
        /\ clog.last.rec \in clog.prev.hits => clog.last.hash # <<>>

\* C22 (amended): in the third of three consecutive sessions on a cache
\* path, Lookup misses on an entry the first session left and the second
\* neither looked up nor stored again, and hits on an entry the second
\* session looked up with a hit.
C22_SelfCleaningUnlessStoredAgain ==
    (LookedUpInNextSession /\ clog.session >= 3) =>
        /\ (clog.last.rec \in clog.prev2 /\ clog.last.rec \notin Kept(clog.prev))
            => clog.last.hash = <<>>
        /\ clog.last.rec \in clog.prev.hits => clog.last.hash # <<>>

\* The third session has hit the entry the second session looked up and
\* then missed on the entry the first session stored and the second left
\* alone.
C22_Witness ==
    /\ LookedUpInNextSession
    /\ clog.session = 3
    /\ Cardinality(clog.prev2) = 2
    /\ Cardinality(clog.prev.hits) = 1
    /\ clog.prev.stored = <<>>
    /\ clog.cur.hits = clog.prev.hits
    /\ clog.last.rec \in clog.prev2 \ clog.prev.hits
    /\ clog.last.hash = <<>>

(***************************************************************************)
(* Properties of the Scanner.                                              *)
(***************************************************************************)
\* Scanner.Run has returned from a run with valid options.
ScanReturned == sc.pc = "returned"

\* The root directories of the run, as absolute paths.
ScanRoots == {Abs(sc.opts.paths[i]) : i \in DOMAIN sc.opts.paths}

\* The paths strictly between a root and a path below it.
Between(root, p) == {SubSeq(p, 1, n) : n \in (Len(root) + 1)..(Len(p) - 1)}

\* The path is below the root and every directory from the root down to it
\* is a directory that can be read.
ReachableFrom(root, p) ==
    /\ Len(root) < Len(p)
    /\ SubSeq(p, 1, Len(root)) = root
    /\ \A q \in {root} \cup Between(root, p) : tree[q].kind = "dir" /\ tree[q].err = ""

\* Some exclude pattern matches the last name of the path.
NameExcluded(p) == \E pattern \in sc.opts.excludes : GlobMatch(pattern, <<p[Len(p)]>>)

OutPaths == {sc.out[i].Path : i \in DOMAIN sc.out}

\* C23: when Scanner.Run has returned, a regular file is in its output iff
\* it is reachable from a root, its size is at least the minimum size, no
\* exclude pattern matches its base name and none matches the base name of
\* a directory between the root and the file; every record of the output is
\* a regular file with no symbolic link or other non-directory above it.
C23_OutputIffMatching ==
    ScanReturned =>
        /\ \A p \in DOMAIN tree :
              tree[p].kind = "file" =>
                 (p \in OutPaths <=>
                    \E root \in ScanRoots :
                       /\ ReachableFrom(root, p)
                       /\ tree[p].size >= sc.minSize
                       /\ ~NameExcluded(p)
                       /\ \A q \in Between(root, p) : ~NameExcluded(q))
        /\ \A p \in OutPaths :
              /\ tree[p].kind = "file"
              /\ \A n \in 1..(Len(p) - 1) : tree[SubSeq(p, 1, n)].kind = "dir"

\* A run with an excluded directory name and a minimum size of 2 has
\* returned the large file of root 1 and the file of root 2: not the small
\* file, nor the files below the directories named 4, nor the file below the
\* symbolic link.
C23_Witness ==
    /\ ScanReturned
    /\ sc.opts.excludes = {<<4>>}
    /\ sc.minSize = 2
    /\ tree[<<1, 4>>].err = ""
    /\ OutPaths = {<<1, 2>>, <<2, 1>>}

\* The path is not a directory that can be opened and read.
CannotRead(d) == d \notin DOMAIN tree \/ tree[d].kind # "dir" \/ tree[d].err # ""

\* The directories the walk comes to: the roots, and the directories reached
\* through readable directories, none of them excluded.
Visited(d) ==
    \/ d \in ScanRoots
    \/ /\ d \in DOMAIN tree
       /\ tree[d].kind = "dir"
       /\ ~NameExcluded(d)
       /\ \E root \in ScanRoots :
            /\ ReachableFrom(root, d)
            /\ \A q \in Between(root, d) : ~NameExcluded(q)

\* The errors sent on the error channel so far.
ErrorsSent == sc.reported \o sc.errq

ErrorSentFor(d) == \E k \in DOMAIN ErrorsSent : ErrorsSent[k][1] = d

\* The matching files of the readable directories the walk comes to.
ExpectedPaths ==
    {p \in DOMAIN tree :
        /\ tree[p].kind = "file"
        /\ tree[p].size >= sc.minSize
        /\ ~NameExcluded(p)
        /\ Visited(Parent(p))
        /\ ~CannotRead(Parent(p))}

\* C24: a directory that cannot be opened or read is reported on the error
\* channel and is not fatal: Scanner.Run, once started with a positive
\* worker count, returns, and its output then holds every matching file of
\* the readable directories and an error has been sent for every directory
\* that could not be read.
C24_UnreadableNotFatal ==
    /\ [](ScanReturned =>
            /\ \A d \in DOMAIN tree \cup ScanRoots :
                  (Visited(d) /\ CannotRead(d)) => ErrorSentFor(d)
            /\ ExpectedPaths \subseteq OutPaths)
    /\ (sc.pc = "spawn" /\ sc.opts.workers >= 1) ~> ScanReturned

\* Scanner.Run has returned the large file of root 1 although neither root
\* 2 nor the directory 4 of root 1 could be opened; both were reported.
C24_Witness ==
    /\ ScanReturned
    /\ tree[<<2>>].err = "EACCES"
    /\ tree[<<1, 4>>].err = "EACCES"
    /\ ErrorSentFor(<<2>>)
    /\ ErrorSentFor(<<1, 4>>)
    /\ <<1, 2>> \in OutPaths

\* C25: a worker count of zero or less is rejected before any stage runs:
\* runDedupe ends with a fatal error, and the Scanner is not started (no
\* semaphore is made, no walker spawned) with a worker count below one.
C25_WorkerCountValidated ==
    sc.opts.workers <= 0 =>
        /\ sc.pc \in {"idle", "start", "fatal"}
        /\ walkers = <<>>

\* The walker is inside sendError and the error channel has no room: the
\* send waits for drainErrors to take an error.
WaitsInSendError(w) == walkers[w].pc = "error" /\ Len(sc.errq) >= ErrCap

\* C26: reporting an error never makes the reporting task wait: no walker
\* is ever held inside sendError by a full error channel.
C26_SendErrorNeverWaits == \A w \in DOMAIN walkers : ~WaitsInSendError(w)

\* C29: for a worker count of one or more, Scanner.Run returns only after
\* every walker has finished, resultCh has been closed and the collector
\* has drained it; the list it returns is the records the walkers sent, each
\* once, in the order they were sent; resultCh is closed only when every
\* walker has finished, so no walker sends on it once it is closed.
C29_ScannerFanIn ==
    sc.opts.workers >= 1 =>
        /\ ScanReturned =>
              /\ \A w \in DOMAIN walkers : walkers[w].pc = "done"
              /\ sc.closed
              /\ sc.ch = <<>>
              /\ sc.collector = "done"
              /\ sc.out = sc.sent
        /\ sc.closed => \A w \in DOMAIN walkers : walkers[w].pc = "done"
        /\ ~sc.sentClosed

\* Scanner.Run has returned five records sent by four walkers, two of them
\* spawned by other walkers, through a channel with room for one record.
C29_Witness ==
    /\ ScanReturned
    /\ sc.opts.workers >= 1
    /\ Len(walkers) = 4
    /\ Len(sc.out) = 5
    /\ Len(sc.out) > ResultCap

(***************************************************************************)
(* Properties of the Verifier's tasks.                                     *)
(***************************************************************************)
\* Worker k waits in processJob's send of a follow-up job: jobCh is full.
BlockedOnJobCh(k) ==
    /\ vworkers[k].pc = "job"
    /\ ~vr.jobClosed
    /\ Len(vr.jobCh) >= JobCap

\* C27: Verifier.Run returns for every set of candidate groups and every
\* worker count of one or more, also when the jobs outnumber the room in
\* jobCh: no reachable state has every worker waiting to send a follow-up
\* job to the full jobCh, which only the workers empty.
C27_NoWorkerStuckOnFullQueue ==
    ~(/\ vr.pc = "run"
      /\ DOMAIN vworkers # {}
      /\ \A k \in DOMAIN vworkers : BlockedOnJobCh(k))

\* The open tasks of the Verifier: inner tasks holding a file open.
OpenTasks ==
    {<<k, i>> \in (DOMAIN vworkers) \X (1..4) :
        i \in DOMAIN vworkers[k].tasks /\ vworkers[k].tasks[i].pc = "open"}

\* The inner tasks of the Verifier that hold a slot of workerSem.
HoldingTasks ==
    {<<k, i>> \in (DOMAIN vworkers) \X (1..4) :
        i \in DOMAIN vworkers[k].tasks
        /\ vworkers[k].tasks[i].acquired > vworkers[k].tasks[i].released}

\* C28: jobCh is not closed while an initial job is still to be sent, a
\* job is in a worker's hands or a follow-up job is still to be sent;
\* resultsCh is not closed while a worker has not exited; no send happens on
\* a closed channel.
C28_NoSendOnClosed ==
    /\ vr.jobClosed =>
          /\ vr.init > Len(candidates)
          /\ vr.jobCh = <<>>
          /\ \A k \in DOMAIN vworkers :
                /\ vworkers[k].pc \in {"recv", "exited"}
                /\ vworkers[k].jobs = {}
    /\ vr.resClosed => \A k \in DOMAIN vworkers : vworkers[k].pc = "exited"
    /\ ~vr.sentClosed

\* Verifier.Run has returned a group of files larger than one chunk, which
\* took follow-up jobs to confirm, after both channels were closed.
C28_Witness ==
    /\ vr.pc = "returned"
    /\ vr.jobClosed
    /\ vr.resClosed
    /\ Len(vr.out) >= 1
    /\ \A p \in VerifyPaths : inodes[fs[p].id].size > probeSize

\* C30: no more Scanner tasks have a directory open, and no more Verifier
\* inner tasks a file, than there are workers; every task releases its
\* slot once for the one time it acquired it, also when it ends on an error.
C30_SemaphoreBounds ==
    /\ Cardinality({w \in DOMAIN walkers : walkers[w].pc = "list"}) <= sc.opts.workers
    /\ Cardinality(OpenTasks) <= sc.opts.workers
    /\ sc.sem <= sc.opts.workers
    /\ sc.peak <= sc.opts.workers
    /\ vr.sem <= sc.opts.workers
    /\ vr.sem = Cardinality(HoldingTasks)
    /\ sc.sem = Cardinality({w \in DOMAIN walkers :
                                walkers[w].acquired > walkers[w].released})
    /\ \A w \in DOMAIN walkers :
          /\ walkers[w].released <= walkers[w].acquired
          /\ walkers[w].acquired <= 1
          /\ walkers[w].pc = "done" => walkers[w].released = 1
    /\ \A k \in DOMAIN vworkers : \A i \in DOMAIN vworkers[k].tasks :
          /\ vworkers[k].tasks[i].released <= vworkers[k].tasks[i].acquired
          /\ vworkers[k].tasks[i].acquired <= 1
          /\ vworkers[k].tasks[i].pc = "done" => vworkers[k].tasks[i].released = 1

\* The walkers have held every slot of walkerSem at once, and the walker
\* of a subdirectory, which ended on an error, has taken a slot once and
\* given it back; every slot of workerSem is taken by an inner task with a
\* file open, a further inner task waits for one, and one whose read failed
\* has given its slot back.
C30_Witness ==
    /\ sc.opts.workers > 1
    /\ sc.peak = sc.opts.workers
    /\ sc.sem = 0
    /\ \E w \in DOMAIN walkers :
          /\ Len(walkers[w].dir) = 2
          /\ walkers[w].err # ""
          /\ walkers[w].pc = "done"
          /\ walkers[w].acquired = 1
          /\ walkers[w].released = 1
    /\ vr.pc = "run"
    /\ vr.sem = sc.opts.workers
    /\ Cardinality(OpenTasks) = sc.opts.workers
    /\ \E k \in DOMAIN vworkers : \E i \in DOMAIN vworkers[k].tasks :
          vworkers[k].tasks[i].pc = "acquire"
    /\ \E k \in DOMAIN vworkers : \E i \in DOMAIN vworkers[k].tasks :
          /\ vworkers[k].tasks[i].pc = "done"
          /\ vworkers[k].tasks[i].failed
          /\ vworkers[k].tasks[i].released = 1

(***************************************************************************)
(* Properties of the walker's semaphore slot.                              *)
(***************************************************************************)
\* Walker w holds a slot of walkerSem.
HoldsSlot(w) == walkers[w].acquired > walkers[w].released

\* C31: a walker has released its slot of walkerSem once it has read its
\* directory: it holds none while it sends an error, while it sends file
\* records on resultCh, or when it spawns the walkers of its subdirectories.
C31_SlotReleasedAfterListing ==
    \A w \in DOMAIN walkers :
        walkers[w].pc \in {"error", "files", "spawn"} => ~HoldsSlot(w)

(***************************************************************************)
(* Properties of the target's file handle.                                 *)
(***************************************************************************)
\* C32: dedupeFile has closed the target's handle, and so dropped its
\* lock, before CreateHardlink or CreateSymlink issues the rename over the
\* target: the handle is not open when the rename is about to run or has
\* just committed.
C32_TargetClosedBeforeRename ==
    (dpc \in {"rename", "srename"} \/ dret.committed) => handle = NoHandle

(***************************************************************************)
(* Properties of the schedule table.                                       *)
(***************************************************************************)
\* The end of the range r = <<start, size>>.
EndOf(r) == r[1] + r[2]

\* C33: the ranges nextJob has produced so far are the first ranges of the
\* schedule table for the size S, and all of them once it reports done:
\* first [0, min(probeSize, S)); nothing more if S <= probeSize; then
\* [probeSize, S) and nothing more if S <= 2*probeSize; otherwise the tail
\* [S-probeSize, S) and then chunks of 1..chunkSize bytes, the first at
\* probeSize, each starting where the one before ended, the last ending at
\* S-probeSize.
C33_ScheduleTable ==
    LET S  == jobGroup[1][1].Size
        rs == jobRanges
        n  == Len(jobRanges)
    IN  /\ n >= 1 => rs[1] = <<0, min(probeSize, S)>>
        /\ jobDone => n >= 1
        /\ S <= probeSize => n <= 1
        /\ (probeSize < S /\ S <= 2 * probeSize) =>
              /\ n <= 2
              /\ n >= 2 => rs[2] = <<probeSize, S - probeSize>>
              /\ jobDone => n = 2
        /\ S > 2 * probeSize =>
              /\ n >= 2 => rs[2] = <<S - probeSize, probeSize>>
              /\ n >= 3 => rs[3][1] = probeSize
              /\ \A i \in 3..n :
                    /\ rs[i][2] >= 1
                    /\ rs[i][2] <= chunkSize
                    /\ EndOf(rs[i]) <= S - probeSize
                    /\ i < n => rs[i + 1][1] = EndOf(rs[i])
              /\ jobDone => (n >= 3 /\ EndOf(rs[n]) = S - probeSize)

\* A file above 2*probeSize + chunkSize is done: head, tail, one whole chunk
\* at probeSize and a second, shorter one that ends where the tail starts.
C33_Witness ==
    /\ jobDone
    /\ jobGroup[1][1].Size > 2 * probeSize + chunkSize
    /\ jobRanges[3] = <<probeSize, chunkSize>>
    /\ jobRanges[4][1] = probeSize + chunkSize
    /\ jobRanges[4][2] < chunkSize

(***************************************************************************)
(* Properties of the source within its sibling group.                      *)
(***************************************************************************)
\* The sibling groups of selGroup that hold the selected source.
GroupsOfSource ==
    {s \in 1..Len(selGroup) : \E m \in 1..Len(selGroup[s]) : selGroup[s][m] = selSource}

\* The priority prefix that decides the selection: the first of the list
\* that some path of the group has.
DecidingPrefix ==
    selPriority[CHOOSE k \in 1..Len(selPriority) :
                    /\ \E f \in SelFiles : HasPrefix(f.Path, selPriority[k])
                    /\ \A m \in 1..(k - 1) :
                          ~\E f \in SelFiles : HasPrefix(f.Path, selPriority[m])]

\* C34 as stated: the source is the first path of its sibling group, also
\* when the group is chosen by a priority prefix.
C34_SourceIsFirstOfGroup ==
    selSource # NoFile =>
        \E s \in GroupsOfSource : selSource = selGroup[s][1]

\* C34: the source is the first path of its sibling group when no path has
\* a priority prefix; when the group is chosen by a priority prefix the
\* source is the first path of the group that has the deciding prefix.
C34_SourceIsFirstOrFirstMatching ==
    selSource # NoFile =>
        \E s \in GroupsOfSource :
            IF \E f \in SelFiles : Matches(f)
            THEN \E k \in 1..Len(selGroup[s]) :
                    /\ selSource = selGroup[s][k]
                    /\ HasPrefix(selSource.Path, DecidingPrefix)
                    /\ \A m \in 1..(k - 1) :
                          ~HasPrefix(selGroup[s][m].Path, DecidingPrefix)
            ELSE selSource = selGroup[s][1]

\* A selection by priority in which the path with the prefix is the second
\* of its sibling group, and is the source.
C34_Witness ==
    /\ selSource # NoFile
    /\ \E s \in GroupsOfSource :
          /\ Len(selGroup[s]) >= 2
          /\ selSource = selGroup[s][2]
          /\ HasPrefix(selSource.Path, DecidingPrefix)
          /\ ~HasPrefix(selGroup[s][1].Path, DecidingPrefix)

(***************************************************************************)
(* Properties of the source at the time of the link.                       *)
(***************************************************************************)
\* C35: no replacement is committed by a call of dedupeFile that began
\* when the source path no longer named a file with the mtime the Scanner
\* recorded: such a call links nothing and its target keeps its entry.
C35_StaleSourceNeverLinked ==
    \A k \in 1..Len(Results) :
        Results[k].srcStale =>
            /\ ~Results[k].committed
            /\ OpsOf(k) = {}

(***************************************************************************)
(* Properties of the groups the Verifier's tasks return.                   *)
(***************************************************************************)
\* The sibling groups of a group.
SiblingsOf(g) == {g[i] : i \in 1..Len(g)}

\* The DuplicateGroups collected so far are disjoint, distinct, of two or
\* more sibling groups, and each lies within one candidate group.
WellFormedGroups(groups) ==
    /\ \A i, j \in 1..Len(groups) :
          i # j => /\ SiblingsOf(groups[i]) \cap SiblingsOf(groups[j]) = {}
                   /\ groups[i] # groups[j]
    /\ \A i \in 1..Len(groups) :
          /\ Len(groups[i]) >= 2
          /\ Cardinality(SiblingsOf(groups[i])) = Len(groups[i])
          /\ \E c \in 1..Len(candidates) :
                SiblingsOf(groups[i]) \subseteq SiblingsOf(candidates[c])
          /\ \A a, b \in SiblingsOf(groups[i]) : a[1].Size = b[1].Size

\* C36: whatever the interleaving of the workers, a sibling group of the
\* input is in at most one DuplicateGroup collected or returned, every such
\* group has two or more sibling groups, all of one candidate group and so
\* of one size, and no group is collected or returned twice.
C36_GroupsDisjoint ==
    /\ WellFormedGroups(vr.dups \o vr.resCh)
    /\ vr.pc = "returned" => WellFormedGroups(vr.out)

\* Two workers have returned two DuplicateGroups, one of them of files that
\* took a follow-up job.
C36_Witness ==
    /\ vr.pc = "returned"
    /\ Len(vworkers) = 2
    /\ Len(vr.out) = 2
    /\ \E i \in 1..2 : vr.out[i][1][1].Size > probeSize

(***************************************************************************)
(* Properties of a run whose scan holds a path more than once.             *)
(***************************************************************************)
\* The calls of dedupeFile on target path p that were counted: returned
\* without an error.
CountedFor(p) == {k \in 1..Len(dres) : dres[k].Target = p /\ dres[k].Err = ""}

\* The distinct target paths of the run.
DistinctTargets == {dres[k].Target : k \in 1..Len(dres)}

\* C37: when the scan holds a path more than once and nothing fails, the
\* run ends as if it held it once: every target path is counted at most
\* once, files_done is at most the number of distinct targets and
\* bytes_saved at most their sizes, no target is reported as modified since
\* the scan, and the run leaves no tmp file behind.
C37_RepeatedPathsTolerated ==
    (stage = "done" /\ faults = 0) =>
        /\ \A p \in DistinctTargets : Cardinality(CountedFor(p)) <= 1
        /\ st.processedFiles <= Cardinality(DistinctTargets)
        /\ \A k \in 1..Len(dres) : dres[k].Err # "file modified since scan"
        /\ \A p \in BasePaths : Exists(TmpOf(p)) => fs[TmpOf(p)] = fs0[TmpOf(p)]

(***************************************************************************)
(* Properties of the roots as priority prefixes.                           *)
(***************************************************************************)
\* The paths the Scanner found under the k-th root of the command line.
FoundUnder(k) == {f.Path : f \in ScanUnder(filepathAbs(selPriority[k]))}

\* C38: a scanned path has a root of the command line as its priority
\* prefix exactly when the Scanner found it under that root, however the
\* root is spelled; so the source is a file found under the first root.
C38_PriorityIsRootMembership ==
    selSource # NoFile =>
        /\ \A f \in SelFiles : \A k \in 1..Len(selPriority) :
              HasPrefix(f.Path, selPriority[k]) <=> f.Path \in FoundUnder(k)
        /\ selSource.Path \in FoundUnder(1)

(***************************************************************************)
(* Properties of the progress counters.                                    *)
(***************************************************************************)
\* C39: once Run has counted its targets, files_done never exceeds
\* files_total, and files_total is the number of target paths: the paths of
\* every sibling group but the source's, whichever group the source is in.
C39_TotalCountsTargets ==
    (stage \in {"dedupe", "done"} /\ dpc # "idle") =>
        /\ st.processedFiles <= st.totalFiles
        /\ st.totalFiles = Cardinality(ExpectedTargets)

(***************************************************************************)
(* Properties of the dry run's report.                                     *)
(***************************************************************************)
\* What a result reports of its target.
Outcome(r) == <<r.Target, r.Action, r.Err>>

\* C40: when nothing fails, the real run that follows a dry run ends with
\* the report the dry run gave: the same outcome for every target (hardlink,
\* symlink, or skip with its reason), the same files_done and bytes_saved.
C40_DryRunReportsAsReal ==
    (stage = "done" /\ prevRun.n = 1 /\ faults = 0) =>
        /\ Len(dres) = Len(prevRun.dres)
        /\ \A k \in 1..Len(dres) : Outcome(dres[k]) = Outcome(prevRun.dres[k])
        /\ st.processedFiles = prevRun.st.processedFiles
        /\ st.savedBytes = prevRun.st.savedBytes

=============================================================================
